---- MODULE Spec2Model ----
(***************************************************************************)
(* Resource-adjustment engine of app/mining_environment/scripts:           *)
(* SharedResourceManager (adapters, apply_cloak_strategy,                  *)
(* restore_resources) and ResourceManager (priority queue of adjustment    *)
(* tasks, the four worker threads, stop()).                                *)
(*                                                                         *)
(* Python dicts are functions with a finite domain, None is the value      *)
(* None below, and the heap inside queue.PriorityQueue is a sequence that  *)
(* is sifted exactly as the _heapq accelerator does it.                    *)
(***************************************************************************)
EXTENDS Integers, Sequences, FiniteSets, TLC

\* ------------------------------------------------------------------------
\* Values and the registry
\* ------------------------------------------------------------------------

\* Python's None (returned by the get_current_* readers on failure).
None == 0 - 1

\* The empty dict {}.
EmptyDict == [k \in {} |-> None]

\* d.get(k)
Get(d, k) == IF k \in DOMAIN d THEN d[k] ELSE None

\* Python truthiness of a saved value: `if cpu_freq:` is false for None and 0.
Truthy(v) == v # None /\ v # 0

\* Managed processes (cpu_miner, gpu_miner).
Pids == {1001, 1002}

\* psutil.cpu_count(logical=True) of the host.
cpu_count == 2

\* Keys whose current value apply_cloak_strategy writes into
\* original_resource_limits.
SnapshotKeys == {"cpu_freq", "gpu_power_limit", "network_bandwidth_limit_mbps", "ionice_class"}

\* Keys restore_resources looks up.
RestoreKeys == {"cpu_freq", "cpu_threads", "ram_allocation_mb", "gpu_power_limit", "ionice_class", "network_bandwidth_limit_mbps"}

\* CPU frequencies (MHz) the governor moves between on its own.
FreqLevels == {2500, 3000}

StrategyNames == {"cpu", "gpu", "network", "disk_io", "cache"}

\* strategy.apply(process): the adjustments a strategy can hand back.  The
\* empty dict stands for a strategy that has nothing to adjust.
StrategyApply(name) ==
    CASE name = "cpu"     -> {("cpu_freq" :> 2000) @@ ("cpu_threads" :> 1), EmptyDict}
      [] name = "gpu"     -> {"gpu_power_limit" :> 200}
      [] name = "network" -> {"network_bandwidth_limit_mbps" :> 80}
      [] name = "disk_io" -> {"ionice_class" :> 3}
      [] name = "cache"   -> {"drop_caches" :> 1}

\* The cloak requests made: each worker with the strategies that apply to it
\* (the CPU worker 1001, the GPU worker 1002).
Requests ==
    {<<1001, "cpu">>, <<1001, "disk_io">>, <<1001, "network">>,
     <<1002, "gpu">>, <<1002, "disk_io">>, <<1002, "cache">>}

\* CloakStrategyFactory.create_strategy: a strategy, None, or an exception.
CreateOutcomes == {"ok", "none", "raises"}

\* ------------------------------------------------------------------------
\* The machine the adapters act on.  M is a record
\*   limits   : original_resource_limits (dict pid -> dict key -> value)
\*   freq     : psutil.cpu_freq().current
\*   gpu_mw   : power management limit of GPU 0, in mW
\*   ionice   : I/O priority class of each pid
\*   affinity : number of cores each pid is pinned to
\* ------------------------------------------------------------------------

\* The value of a knob as the system holds it.
SysValue(M, k, pid) ==
    CASE k = "cpu_freq"        -> M.freq
      [] k = "gpu_power_limit" -> M.gpu_mw \div 1000
      [] k = "ionice_class"    -> M.ionice[pid]
      [] k = "cpu_threads"     -> M.affinity[pid]
      [] OTHER                 -> None

\* get_current_cpu_frequency / get_current_gpu_power_limit /
\* get_current_ionice_class / get_current_network_bandwidth_limit:
\* the current value, None when the read raises; the network reader always
\* returns None.
get_current(M, k, pid, rfail) ==
    IF k \in rfail \/ k = "network_bandwidth_limit_mbps" THEN None ELSE SysValue(M, k, pid)

\* assign_process_resources logs "Requested CPU threads (n) invalid. Skipping."
cpu_threads_warning(n) == n > cpu_count \/ n <= 0

\* taskset run for whatever count is asked for.
assign_cpu_threads_unchecked(M, pid, n, ok) ==
    IF ok THEN [M EXCEPT !.affinity[pid] = n] ELSE M

\* assign_process_resources with {'cpu_threads': n}: taskset, or a warning.
assign_cpu_threads(M, pid, n, ok) ==
    IF n > cpu_count \/ n <= 0 THEN M
    ELSE IF ok THEN [M EXCEPT !.affinity[pid] = n] ELSE M

adjust_cpu_threads(M, pid, n, ok) == assign_cpu_threads(M, pid, n, ok)

\* RAM, CPU frequency and disk I/O limit are log-only in assign_process_resources.
adjust_ram_allocation(M, pid, mb) == M

adjust_cpu_frequency(M, pid, f) == M

\* configure_network_interface is a stub.
adjust_network_bandwidth(M, pid, bw) == M

\* nvmlDeviceSetPowerManagementLimit(handle, power_limit * 1000); an NVML
\* error is logged and swallowed.
adjust_gpu_power_limit(M, pid, w, ok) ==
    IF ok THEN [M EXCEPT !.gpu_mw = w * 1000] ELSE M

\* ionice -c <class> -p <pid>; a failure is logged and swallowed.
adjust_disk_io_priority(M, pid, c, ok) ==
    IF ok THEN [M EXCEPT !.ionice[pid] = c] ELSE M

drop_caches(M) == M

\* execute_adjustments: one adapter per key of the adjustments dict.
execute_adjustments(M, adj, pid, wfail) ==
    LET m1 == IF "cpu_freq" \in DOMAIN adj
              THEN adjust_cpu_frequency(M, pid, adj["cpu_freq"]) ELSE M
        m2 == IF "gpu_power_limit" \in DOMAIN adj
              THEN adjust_gpu_power_limit(m1, pid, adj["gpu_power_limit"], "gpu_power_limit" \notin wfail)
              ELSE m1
        m3 == IF "network_bandwidth_limit_mbps" \in DOMAIN adj
              THEN adjust_network_bandwidth(m2, pid, adj["network_bandwidth_limit_mbps"]) ELSE m2
        m4 == IF "ionice_class" \in DOMAIN adj
              THEN adjust_disk_io_priority(m3, pid, adj["ionice_class"], "ionice_class" \notin wfail)
              ELSE m3
        m5 == IF "cpu_threads" \in DOMAIN adj
              THEN adjust_cpu_threads(m4, pid, adj["cpu_threads"], "cpu_threads" \notin wfail)
              ELSE m4
        m6 == IF "drop_caches" \in DOMAIN adj THEN drop_caches(m5) ELSE m5
    IN m6

\* The loop of apply_cloak_strategy over adjustments.items(): every
\* snapshot key of the adjustments is assigned the value read now.
SaveOriginals(M, saved, adj, pid, rfail) ==
    [k \in DOMAIN saved \cup (DOMAIN adj \cap SnapshotKeys) |->
        IF k \in DOMAIN adj \cap SnapshotKeys
        THEN get_current(M, k, pid, rfail)
        ELSE saved[k]]

\* apply_cloak_strategy returning to its caller when no strategy was made.
apply_cloak_strategy_returns(M, pid, created, adj, rfail, wfail) ==
    IF created # "ok" \/ DOMAIN adj = {} THEN [m |-> M, raised |-> FALSE]
    ELSE LET lim0 == IF pid \in DOMAIN M.limits THEN M.limits
                     ELSE M.limits @@ (pid :> EmptyDict)
             snap == SaveOriginals(M, lim0[pid], adj, pid, rfail)
             m1   == [M EXCEPT !.limits =
                         [q \in DOMAIN lim0 |-> IF q = pid THEN snap ELSE lim0[q]]]
         IN [m |-> execute_adjustments(m1, adj, pid, wfail), raised |-> FALSE]

\* apply_cloak_strategy(strategy_name, process).  The result carries the
\* machine afterwards and whether the call raised.
apply_cloak_strategy(M, pid, created, adj, rfail, wfail) ==
    IF created # "ok" THEN [m |-> M, raised |-> TRUE]
    ELSE IF DOMAIN adj = {} THEN [m |-> M, raised |-> FALSE]
    ELSE LET lim0 == IF pid \in DOMAIN M.limits THEN M.limits
                     ELSE M.limits @@ (pid :> EmptyDict)
             snap == SaveOriginals(M, lim0[pid], adj, pid, rfail)
             m1   == [M EXCEPT !.limits =
                         [q \in DOMAIN lim0 |-> IF q = pid THEN snap ELSE lim0[q]]]
         IN [m |-> execute_adjustments(m1, adj, pid, wfail), raised |-> FALSE]

\* restore_resources without its del statement.
DeleteEntry_kept(limits, pid) == limits

\* del self.original_resource_limits[pid]
DeleteEntry(limits, pid) == [q \in DOMAIN limits \ {pid} |-> limits[q]]

\* The adapter calls restore_resources makes for a saved dict: a key is
\* reapplied when its saved value is truthy.
RestoreCalls(saved) == {k \in RestoreKeys : Truthy(Get(saved, k))}

\* restore_resources(process)
restore_resources(M, pid, wfail) ==
    IF pid \notin DOMAIN M.limits \/ DOMAIN M.limits[pid] = {} THEN M
    ELSE LET saved == M.limits[pid]
             calls == RestoreCalls(saved)
             m1 == IF "cpu_freq" \in calls
                   THEN adjust_cpu_frequency(M, pid, saved["cpu_freq"]) ELSE M
             m2 == IF "cpu_threads" \in calls
                   THEN adjust_cpu_threads(m1, pid, saved["cpu_threads"], "cpu_threads" \notin wfail)
                   ELSE m1
             m3 == IF "ram_allocation_mb" \in calls
                   THEN adjust_ram_allocation(m2, pid, saved["ram_allocation_mb"]) ELSE m2
             m4 == IF "gpu_power_limit" \in calls
                   THEN adjust_gpu_power_limit(m3, pid, saved["gpu_power_limit"], "gpu_power_limit" \notin wfail)
                   ELSE m3
             m5 == IF "ionice_class" \in calls
                   THEN adjust_disk_io_priority(m4, pid, saved["ionice_class"], "ionice_class" \notin wfail)
                   ELSE m4
             m6 == IF "network_bandwidth_limit_mbps" \in calls
                   THEN adjust_network_bandwidth(m5, pid, saved["network_bandwidth_limit_mbps"])
                   ELSE m5
         IN [m6 EXCEPT !.limits = DeleteEntry(m6.limits, pid)]

\* Knobs whose adapter can fail at run time (NVML, ionice, taskset).
FallibleKeys == {"gpu_power_limit", "ionice_class", "cpu_threads"}

\* ------------------------------------------------------------------------
\* resource_adjustment_queue = PriorityQueue() holding (priority, task)
\* tuples.  An entry is [prio, task, seq]; seq is the order of the put calls
\* and takes no part in any comparison.
\* ------------------------------------------------------------------------

\* (priority, task) < (priority', task'): decided by the priorities when they
\* differ; equal tuples are not smaller; two different task dicts of one
\* priority cannot be ordered and the comparison raises TypeError.
LessThan(a, b) ==
    IF a.prio # b.prio THEN (IF a.prio < b.prio THEN "lt" ELSE "ge")
    ELSE IF a.task = b.task THEN "ge" ELSE "err"

Swap(h, i, j) == [h EXCEPT ![i] = h[j], ![j] = h[i]]

\* _heapq siftdown towards the root, swapping in place; a failed comparison
\* leaves the heap as it is at that moment.
RECURSIVE siftdown(_, _)
siftdown(h, i) ==
    IF i <= 1 THEN [heap |-> h, raised |-> FALSE]
    ELSE LET par == i \div 2
             c   == LessThan(h[i], h[par])
         IN IF c = "err" THEN [heap |-> h, raised |-> TRUE]
            ELSE IF c = "ge" THEN [heap |-> h, raised |-> FALSE]
            ELSE siftdown(Swap(h, i, par), par)

\* _heapq siftup: move the smaller child up until a leaf is reached, then
\* sift the moved item down towards the root.
RECURSIVE siftup(_, _)
siftup(h, i) ==
    IF 2 * i > Len(h) THEN siftdown(h, i)
    ELSE IF 2 * i + 1 <= Len(h)
         THEN LET c == LessThan(h[2 * i], h[2 * i + 1])
              IN IF c = "err" THEN [heap |-> h, raised |-> TRUE]
                 ELSE LET child == IF c = "lt" THEN 2 * i ELSE 2 * i + 1
                      IN siftup(Swap(h, i, child), child)
         ELSE siftup(Swap(h, i, 2 * i), 2 * i)

\* PriorityQueue.put -> heappush: append, then siftdown.  When the
\* comparison raises the item stays in the list.
heappush(h, e) == siftdown(Append(h, e), Len(h) + 1)

\* PriorityQueue.get -> heappop on a non-empty heap: the last item replaces
\* the root and is sifted; when the comparison raises, the old root has
\* already left the list and is returned to nobody.
heappop(h) ==
    LET n    == Len(h)
        last == h[n]
        rest == SubSeq(h, 1, n - 1)
    IN IF n = 1 THEN [heap |-> rest, raised |-> FALSE, item |-> last]
       ELSE LET r == siftup([rest EXCEPT ![1] = last], 1)
            IN [heap |-> r.heap, raised |-> r.raised, item |-> h[1]]

\* Several puts in a row by one caller, stopping at the first that raises.
\* The result has the heap, the number of puts made and whether the last
\* one raised.
RECURSIVE PutAll(_, _, _)
PutAll(h, tasks, prio) ==
    IF tasks = <<>> THEN [heap |-> h, made |-> 0, raised |-> FALSE]
    ELSE LET r == heappush(h, [prio |-> prio, task |-> Head(tasks), seq |-> 0])
         IN IF r.raised THEN [heap |-> r.heap, made |-> 1, raised |-> TRUE]
            ELSE LET t == PutAll(r.heap, Tail(tasks), prio)
                 IN [heap |-> t.heap, made |-> t.made + 1, raised |-> t.raised]

\* Task dicts.  Every task is [type, pid, arg]: arg is the cloak flag of a
\* monitoring task, the strategy of a cloaking task, the function name of a
\* function-call task.
Task(type, pid, arg) == [type |-> type, pid |-> pid, arg |-> arg]

RestorePriority == 1
MonitoringPriority == 2
OptimizationPriority == 2
CloakingPriority == 2
FunctionPriority == 3

\* The function-call tasks of apply_recommended_action, in the order of
\* its puts.
RecommendedFunctions ==
    <<"adjust_cpu_threads", "adjust_ram_allocation", "adjust_gpu_usage",
      "adjust_disk_io_limit", "adjust_network_bandwidth">>

\* The worker that the monitor and the optimizer act on in the queue model.
Worker == 1002

Threads == {"monitor", "optimizer", "cloaking", "executor"}

\* Number of put calls after which the monitor, the optimizer and the
\* anomaly detector produce nothing more.
MaxPuts == 2

\* Number of put calls in the model of the queue by itself.
MaxQueued == 3

\* ------------------------------------------------------------------------
\* Optimization actions: the adapters a recommended action reaches
\* ------------------------------------------------------------------------

\* config["optimization_parameters"] and config["resource_allocation"]["disk_io"].
gpu_power_adjustment_step == 10

disk_io_limit_step_mbps == 5

min_limit_mbps == 10

max_limit_mbps == 100

Min2(a, b) == IF a < b THEN a ELSE b

Max2(a, b) == IF a > b THEN a ELSE b

\* Process names, letter by letter: the CPU worker 1001 and the GPU worker
\* 1002.
ProcessName(pid) ==
    IF pid = 1001 THEN <<"c", "p", "u", "_", "m", "i", "n", "e", "r">>
    ELSE <<"G", "P", "U", "_", "M", "i", "n", "e", "r">>

\* str.lower on the letters used.
Lower(name) ==
    [i \in DOMAIN name |->
        CASE name[i] = "G" -> "g" [] name[i] = "P" -> "p" [] name[i] = "U" -> "u"
          [] name[i] = "M" -> "m" [] OTHER -> name[i]]

\* keyword in name
Contains(name, keyword) ==
    \E i \in 0..(Len(name) - Len(keyword)) : SubSeq(name, i + 1, i + Len(keyword)) = keyword

gpu_process_keywords ==
    {<<"l", "l", "m", "s", "e", "n", "g", "e", "n">>,
     <<"g", "p", "u", "_", "m", "i", "n", "e", "r">>}

\* MiningProcess.is_gpu_process
is_gpu_process(name) ==
    \E keyword \in gpu_process_keywords : Contains(Lower(name), keyword)

\* The knobs of the worker process that an optimization action addresses:
\* its CPU affinity, the usage handed to set_gpu_usage, the disk I/O limit
\* get_current_disk_io_limit reads and the bandwidth limit of its interface.
HostKnobs(disk) ==
    [affinity |-> [p \in Pids |-> cpu_count], gpu_usage |-> <<>>,
     disk_io_limit_mbps |-> disk, bandwidth |-> None]

\* No action applied yet.
NoAction ==
    [applied |-> 0, pid |-> 0, action |-> <<>>, fails |-> {},
     knobs |-> HostKnobs(55), before |-> HostKnobs(55), first |-> HostKnobs(55)]

\* adjust_gpu_usage: every entry of the list plus the step, kept within
\* 0..100, is handed to set_gpu_usage; an exception is logged.
adjust_gpu_usage(K, pid, gpu_usage_percent, ok) ==
    LET new_gpu_usage_percent ==
            [i \in DOMAIN gpu_usage_percent |->
                Min2(Max2(gpu_usage_percent[i] + gpu_power_adjustment_step, 0), 100)]
    IN IF ok THEN [K EXCEPT !.gpu_usage = new_gpu_usage_percent] ELSE K

\* A disk I/O limit that were written to the host (no such write in
\* assign_process_resources).
assign_disk_io_limit_applied(K, pid, new_limit) ==
    [K EXCEPT !.disk_io_limit_mbps = new_limit]

\* assign_process_resources with {'disk_io_limit_mbps': n}: a warning only.
assign_disk_io_limit(K, pid, new_limit) ==
    K

\* adjust_disk_io_limit: one step from the current limit towards the
\* requested one, kept within the configured limits, then
\* assign_process_resources; a failed read of the current limit is logged.
adjust_disk_io_limit(K, pid, disk_io_limit_mbps, ok) ==
    LET current_limit == K.disk_io_limit_mbps
        stepped == IF current_limit > disk_io_limit_mbps
                   THEN current_limit - disk_io_limit_step_mbps
                   ELSE current_limit + disk_io_limit_step_mbps
        new_limit == Max2(min_limit_mbps, Min2(stepped, max_limit_mbps))
    IN IF ok THEN assign_disk_io_limit(K, pid, new_limit) ELSE K

\* The five function calls apply_recommended_action asks for, run one after
\* the other with the entries of the action vector
\* <<cpu_threads, ram_mb, gpu_usage, disk_io_limit, bandwidth>>.
apply_action(K, pid, action, fails) ==
    LET k1 == adjust_cpu_threads(K, pid, action[1], "cpu_threads" \notin fails)
        k2 == adjust_ram_allocation(k1, pid, action[2])
        k3 == adjust_gpu_usage(k2, pid, action[3], "gpu_usage" \notin fails)
        k4 == adjust_disk_io_limit(k3, pid, action[4], "disk_io" \notin fails)
    IN adjust_network_bandwidth(k4, pid, action[5])

\* The action vectors and host limits tried.
ActionVectors ==
    {<<t, 1024, <<g>>, d, 30>> : t \in {0, 1, 2, 3}, g \in {0 - 20, 50, 95}, d \in {10, 55, 100}}

DiskLimits == {10, 55, 100}

\* ------------------------------------------------------------------------
\* The threshold checks of a monitor tick
\* ------------------------------------------------------------------------

Sensors == {"cpu_temp", "gpu_temp", "cpu_power", "gpu_power"}

\* A device would be cloaked on a reading of zero.
Ceilings_below_zero ==
    [cpu_temp |-> 0 - 1, gpu_temp |-> 0 - 1, cpu_power |-> 0 - 1, gpu_power |-> 0 - 1]

\* The ceilings monitor_and_adjust hands to the checks: temperature_limits
\* and per_device_power_watts of the configuration.
Ceilings ==
    [cpu_temp |-> 75, gpu_temp |-> 85, cpu_power |-> 150, gpu_power |-> 300]

\* What a sensor returns: no data, its ceiling, or five above its ceiling.
SensorReturns == {"no_data", "at", "over"}

\* The reading used by a check; a sensor without data reads as zero.
ReadingOf(s, returned) ==
    CASE returned = "no_data" -> 0
      [] returned = "at"      -> Ceilings[s]
      [] OTHER                -> Ceilings[s] + 5

\* The cloak flags of a check: the devices whose reading is over its ceiling.
OverCeiling(readings, cpu_sensor, gpu_sensor) ==
    (IF readings[cpu_sensor] > Ceilings[cpu_sensor] THEN {"cpu_cloak"} ELSE {})
    \cup (IF readings[gpu_sensor] > Ceilings[gpu_sensor] THEN {"gpu_cloak"} ELSE {})

\* A check puts (2, {'type': 'monitoring', 'process': p, 'adjustments': flags})
\* when it has a flag to set.
enqueue_monitoring(h, pid, flags) ==
    IF flags = {} THEN [heap |-> h, put |-> <<>>, raised |-> FALSE]
    ELSE LET task == Task("monitoring", pid, flags)
             r == heappush(h, [prio |-> MonitoringPriority, task |-> task, seq |-> 0])
         IN [heap |-> r.heap, put |-> << <<MonitoringPriority, task>> >>, raised |-> r.raised]

check_temperature_and_enqueue(h, pid, readings) ==
    enqueue_monitoring(h, pid, OverCeiling(readings, "cpu_temp", "gpu_temp"))

check_power_and_enqueue(h, pid, readings) ==
    enqueue_monitoring(h, pid, OverCeiling(readings, "cpu_power", "gpu_power"))

\* The fields validate_configs checks with one range each, and the range.
ValidatedRanges ==
    [ram_max_mb                  |-> <<1024, 200000>>,
     cpu_percent_threshold       |-> <<1, 100>>,
     cpu_max_threads             |-> <<1, 64>>,
     gpu_percent_threshold       |-> <<1, 100>>,
     gpu_usage_max_percent       |-> <<1, 100>>,
     cache_percent_threshold     |-> <<10, 100>>,
     network_bandwidth_threshold |-> <<1, 10000>>,
     disk_io_threshold_mbps      |-> <<1, 10000>>,
     power_consumption_threshold |-> <<50, 10000>>,
     cpu_max_celsius             |-> <<50, 100>>,
     gpu_max_celsius             |-> <<40, 100>>,
     total_power_max             |-> <<100, 300>>,
     per_device_power_cpu_max    |-> <<50, 150>>,
     per_device_power_gpu_max    |-> <<50, 150>>,
     ram_percent_threshold       |-> <<50, 100>>]

\* The fields of a configuration: the fifteen above and the two of
\* gpu_utilization_percent_optimal.
ConfigFields == DOMAIN ValidatedRanges \cup {"gpu_util_min", "gpu_util_max"}

\* A configuration that passes: every field at the low end of its range.
GoodConfig ==
    [f \in ConfigFields |->
        CASE f = "gpu_util_min" -> 0
          [] f = "gpu_util_max" -> 100
          [] OTHER -> ValidatedRanges[f][1]]

\* The values a field is given: missing, the ends of its range, one under
\* and one over; for the two of gpu_utilization_percent_optimal also 50.
FieldValues(f) ==
    IF f \in DOMAIN ValidatedRanges
    THEN {None, ValidatedRanges[f][1] - 1, ValidatedRanges[f][1],
          ValidatedRanges[f][2], ValidatedRanges[f][2] + 1}
    ELSE {None, 0 - 5, 0, 50, 100, 101}

\* The configurations loaded: the good one with at most one field changed
\* to one of the values above, of its own range or of another field's, and
\* with both of gpu_utilization_percent_optimal changed.
Configs ==
    {[GoodConfig EXCEPT ![f] = v] : f \in ConfigFields, v \in UNION {FieldValues(g) : g \in ConfigFields}}
    \cup {[GoodConfig EXCEPT !["gpu_util_min"] = a, !["gpu_util_max"] = b] :
             a \in {0, 50, 100}, b \in {0, 50, 100}}

\* setup() has not been called.
NoSetup ==
    [pc |-> "start", config |-> GoodConfig, environment |-> FALSE, system |-> FALSE,
     tunnel |-> FALSE, exit_status |-> None]

\* Number of cycles of cloaking_loop in a run.
MaxCycles == 4

\* The largest retries start_mining_process is called with.
MaxRetries == 3

\* start_mining_process has not been called.  slept is the time spent in
\* time.sleep, waits the number of sleeps between attempts.
NoStart ==
    [pc |-> "idle", retries |-> 0, delay |-> 0, attempt |-> 0, attempts |-> 0,
     waits |-> 0, slept |-> 0, last |-> "none", mining_started_event |-> FALSE,
     stop_event |-> FALSE, returned |-> "nothing"]

\* The largest tries a function is wrapped with.
MaxTries == 3

\* The wrapped function has not been invoked.
NoRetry ==
    [pc |-> "idle", tries |-> 0, delay |-> 0, backoff |-> 0, mtries |-> 0, mdelay |-> 0,
     calls |-> 0, waits |-> <<>>, result |-> 0, raised |-> "none"]

\* The divisor of update_resource_usage that turns bytes into MB.
MiB == 1024 * 1024

\* The interface counts no more than this number of MB in a run.
MaxTraffic == 3

\* No sample since the registration or the reset: at and before are the
\* counter totals at the last sample and at the one before it.
NoSamples == [kind |-> "none", sampled |-> FALSE, at |-> 0, before |-> 0]

\* The threads that call ResourceManager(config, model_path, logger).
Callers == {1, 2, 3}

\* Number of calls of ResourceManager(...) in a run.
MaxConstructions == 4

\* update_resource_usage has not been called yet.
NoSample == [pid |-> 0, gone |-> FALSE, logged |-> FALSE, cpu_usage |-> 0]

\* adjust_cpu_threads has not been called yet.
NoCall ==
    [pid |-> 0, cpu_threads |-> 0, ok |-> TRUE, warned |-> FALSE, affinity |-> 0,
     limits |-> EmptyDict]

\* The thread counts asked for: none, fewer than none, some of the logical
\* cores, all of them, one more than there are.
ThreadCounts == {0 - 1, 0, 1, cpu_count, cpu_count + 1}

\* apply_recommended_action has not run yet.
NoRun ==
    [ran |-> FALSE, pid |-> 0, before |-> <<>>, after |-> <<>>, made |-> 0,
     cache |-> FALSE, raised |-> FALSE, logged |-> FALSE, propagated |-> FALSE]

\* No tick yet.
NoTick ==
    [pid |-> 0, readings |-> [s \in Sensors |-> 0], no_data |-> {},
     temperature |-> <<>>, power |-> <<>>, power_checked |-> FALSE]

\* ------------------------------------------------------------------------
\* State
\* ------------------------------------------------------------------------
VARIABLES
    mining_processes,           \* ResourceManager.mining_processes, as the set of its pids
    alive,                      \* the pids the operating system has
    sample,                     \* history: the last update_resource_usage
    is_cloaked,                 \* MiningProcess.is_cloaked per pid
    instances,                  \* number of objects ResourceManager.__new__ has made
    initialized,                \* ResourceManager._initialized
    ctor_pc,                    \* where each caller of ResourceManager(...) is
    ctor_calls,                 \* number of calls of ResourceManager(...) begun
    rm_fields,                  \* the call that made stop_event, the queues, the list, the threads
    rm_replaced,                \* history: fields of the instance were assigned a second time
    main_pc,                    \* where main() of start_mining.py is
    res_pc,                     \* where resource_thread (start_system_manager) is
    main_stop_event,            \* stop_event of start_mining.py
    system_manager_instance,    \* _system_manager_instance is not None
    mining_process,             \* the mining subprocess: "none", "running", "ended"
    signalled,                  \* SIGINT or SIGTERM has been delivered
    stop_runs,                  \* number of times SystemManager.stop has run
    reported,                   \* main logged that the thread could not be stopped
    bytes_sent,                 \* psutil.net_io_counters(pernic=True)[interface].bytes_sent
    bytes_recv,                 \* psutil.net_io_counters(pernic=True)[interface].bytes_recv
    prev_bytes,                 \* MiningProcess._prev_bytes_sent and _prev_bytes_recv
    network_io,                 \* MiningProcess.network_io, in MB
    net_hist,                   \* history: the samples since registration or reset
    retry_call,                 \* one invocation of a function wrapped by retry
    start_call,                 \* one call of start_mining_process
    is_cloaking_active,         \* AIEnvironmentCloaking.is_cloaking_active
    worker_running,             \* AIEnvironmentCloaking.mining_process is running
    shaping,                    \* the tbf qdisc is on eth0
    niced,                      \* the CPU priority of the worker is lowered
    shutdown_event,             \* AIEnvironmentCloaking.shutdown_event
    loop_pc,                    \* where cloaking_loop is
    cleanup_pc,                 \* where cleanup() is
    reconstruction,             \* the reconstruction error of the cycle against the threshold
    cycles,                     \* number of cycles begun
    cloak_log,                  \* history: activations and deactivations made by the loop
    setup_run,                  \* one run of setup_env.setup()
    original_resource_limits,   \* SharedResourceManager.original_resource_limits
    cpu_freq_now,               \* psutil.cpu_freq().current
    gpu_limit_mw,               \* NVML power management limit of GPU 0
    ionice,                     \* I/O priority class per pid
    affinity,                   \* cores per pid
    firstSeen,                  \* history: system value before the first recorded write, per pid and key
    lastOp,                     \* history: the call made last
    roundTrip,                  \* history: an apply on a clean pid and the restore right after it
    resource_adjustment_queue,  \* the heap of PriorityQueue
    cloaking_request_queue,     \* number of cloak requests waiting in the intake Queue
    stop_event,                 \* ResourceManager.stop_event
    thread,                     \* state of each worker thread: "new", "running", "done"
    monitor_pc,                 \* where the monitor is inside its tick
    stop_pc,                    \* where stop() is
    put_count,                  \* number of puts made by the worker threads
    puts,                       \* history: prio and outcome of every put, by seq
    executed,                   \* history: seq of the tasks a get handed to the executor
    overlap,                    \* history: two adapter calls were in progress together
    get_raised,                 \* history: the last get of the executor raised
    task_log,                   \* history: failures logged by the executor and what came after
    opt,                        \* optimization actions: the knobs of the worker and the action applied
    tick,                       \* the last tick of the monitor: readings and the puts of its checks
    action_log,                 \* history: adapter calls since the executor ran an optimization task
    last_action,                \* history: the last run of apply_recommended_action by the executor
    calm,                       \* the readings of the worker stay under the ceilings from now on
    cpu_call,                   \* history: the last call of adjust_cpu_threads and the state before it
    gpu_adapter                 \* NVML on the host, and history of the failures of adjust_gpu_power_limit

smVars == <<original_resource_limits, cpu_freq_now, gpu_limit_mw, ionice, affinity>>
histVars == <<firstSeen, lastOp, roundTrip>>
qVars == <<resource_adjustment_queue, cloaking_request_queue, stop_event, thread,
           monitor_pc, stop_pc, put_count, puts, executed, overlap, get_raised>>
optVars == <<opt>>
monVars == <<tick>>
actVars == <<action_log, last_action>>
envVars == <<calm>>
gpuVars == <<gpu_adapter>>
procVars == <<mining_processes, alive, sample>>
ctorVars == <<instances, initialized, ctor_pc, ctor_calls, rm_fields, rm_replaced>>
supVars ==
    <<main_pc, res_pc, main_stop_event, system_manager_instance, mining_process,
      signalled, stop_runs, reported>>
netVars == <<bytes_sent, bytes_recv, prev_bytes, network_io, net_hist>>
retryVars == <<retry_call>>
startVars == <<start_call>>
cloakVars ==
    <<is_cloaking_active, worker_running, shaping, niced, shutdown_event, loop_pc,
      cleanup_pc, reconstruction, cycles, cloak_log>>
setupVars == <<setup_run>>
endVars == <<netVars, retryVars, startVars, cloakVars, setupVars>>
tailVars == <<ctorVars, supVars, endVars>>
lateVars == <<procVars, is_cloaked, tailVars>>
beforeCtorVars ==
    <<smVars, histVars, qVars, task_log, optVars, monVars, actVars, envVars, cpu_call,
      gpuVars, procVars, is_cloaked>>
beforeEndVars == <<beforeCtorVars, ctorVars, supVars>>
notNetVars == <<beforeEndVars, retryVars, startVars, cloakVars, setupVars>>
notRetryVars == <<beforeEndVars, netVars, startVars, cloakVars, setupVars>>
notStartVars == <<beforeEndVars, netVars, retryVars, cloakVars, setupVars>>
notCloakVars == <<beforeEndVars, netVars, retryVars, startVars, setupVars>>
notSetupVars == <<beforeEndVars, netVars, retryVars, startVars, cloakVars>>
moreVars == <<cpu_call, gpuVars, lateVars>>
auxVars == <<task_log, optVars, monVars, actVars, envVars, moreVars>>
vars == <<smVars, histVars, qVars, auxVars>>

Machine ==
    [limits |-> original_resource_limits, freq |-> cpu_freq_now, gpu_mw |-> gpu_limit_mw,
     ionice |-> ionice, affinity |-> affinity]

SetMachine(M) ==
    /\ original_resource_limits' = M.limits
    /\ cpu_freq_now' = M.freq
    /\ gpu_limit_mw' = M.gpu_mw
    /\ ionice' = M.ionice
    /\ affinity' = M.affinity

NoOp ==
    [op |-> "none", pid |-> 0, raised |-> FALSE, failed |-> FALSE, recorded |-> {},
     known |-> {}, calls |-> {}, created |-> ""]

Idle == [phase |-> "idle", pid |-> 0, pre |-> EmptyDict, clean |-> TRUE]

Init ==
    /\ original_resource_limits = EmptyDict
    /\ cpu_freq_now = 3000
    /\ gpu_limit_mw = 250000
    /\ ionice = (1001 :> 2) @@ (1002 :> 0)
    /\ affinity = [p \in Pids |-> cpu_count]
    /\ firstSeen = [p \in Pids |-> EmptyDict]
    /\ lastOp = NoOp
    /\ roundTrip = Idle
    /\ resource_adjustment_queue = <<>>
    /\ cloaking_request_queue = 0
    /\ stop_event = FALSE
    /\ thread = [t \in Threads |-> "new"]
    /\ monitor_pc = "idle"
    /\ stop_pc = "idle"
    /\ put_count = 0
    /\ puts = <<>>
    /\ executed = <<>>
    /\ overlap = FALSE
    /\ get_raised = FALSE
    /\ task_log = "none"
    /\ opt = NoAction
    /\ tick = NoTick
    /\ action_log = [applied |-> FALSE, effects |-> <<>>]
    /\ last_action = NoRun
    /\ calm = FALSE
    /\ cpu_call = NoCall
    /\ gpu_adapter = [nvml |-> "ok", failed |-> FALSE, again |-> FALSE]
    /\ mining_processes = {}
    /\ alive = Pids
    /\ sample = NoSample
    /\ is_cloaked = [p \in Pids |-> FALSE]
    /\ instances = 0
    /\ initialized = FALSE
    /\ ctor_pc = [c \in Callers |-> "idle"]
    /\ ctor_calls = 0
    /\ rm_fields = 0
    /\ rm_replaced = FALSE
    /\ main_pc = "setup"
    /\ res_pc = "new"
    /\ main_stop_event = FALSE
    /\ system_manager_instance = FALSE
    /\ mining_process = "none"
    /\ signalled = FALSE
    /\ stop_runs = 0
    /\ reported = FALSE
    /\ bytes_sent = 0
    /\ bytes_recv = 0
    /\ prev_bytes = [sent |-> None, recv |-> None]
    /\ network_io = 0
    /\ net_hist = NoSamples
    /\ retry_call = NoRetry
    /\ start_call = NoStart
    /\ is_cloaking_active = FALSE
    /\ worker_running = FALSE
    /\ shaping = FALSE
    /\ niced = FALSE
    /\ shutdown_event = FALSE
    /\ loop_pc = "test"
    /\ cleanup_pc = "idle"
    /\ reconstruction = "none"
    /\ cycles = 0
    /\ cloak_log = <<>>
    /\ setup_run = NoSetup

\* History kept for a cloak that saved something: the system value of each
\* snapshot key at the first call that wrote it since the last restore.
NoteFirst(seen, M, adj, pid) ==
    [k \in DOMAIN seen \cup (DOMAIN adj \cap SnapshotKeys) |->
        IF k \in DOMAIN seen THEN seen[k] ELSE SysValue(M, k, pid)]

\* SharedResourceManager.apply_cloak_strategy called for one process.
ApplyCloakStrategy ==
    \E req \in Requests, created \in CreateOutcomes :
      \E adj \in (IF created = "ok" THEN StrategyApply(req[2]) ELSE {EmptyDict}) :
      \E rfail \in SUBSET (DOMAIN adj \cap {"gpu_power_limit"}),
         wfail \in SUBSET (DOMAIN adj \cap {"gpu_power_limit", "ionice_class"}) :
        LET pid == req[1]
            r == apply_cloak_strategy(Machine, pid, created, adj, rfail, wfail)
            acted == created = "ok" /\ DOMAIN adj # {}
            touched == DOMAIN adj \cap SnapshotKeys
        IN /\ SetMachine(r.m)
           /\ UNCHANGED <<qVars, auxVars>>
           /\ firstSeen' = IF acted
                           THEN [firstSeen EXCEPT ![pid] = NoteFirst(@, Machine, adj, pid)]
                           ELSE firstSeen
           /\ lastOp' = [op |-> "apply", pid |-> pid, raised |-> r.raised,
                         failed |-> acted /\ (wfail \cap DOMAIN adj # {}),
                         recorded |-> {}, known |-> {}, calls |-> {},
                         created |-> created]
           /\ roundTrip' =
                IF acted /\ pid \notin DOMAIN original_resource_limits
                THEN [phase |-> "applied", pid |-> pid,
                      pre |-> [k \in touched |-> SysValue(Machine, k, pid)],
                      clean |-> rfail \cap touched = {} /\ wfail \cap touched = {}]
                ELSE Idle

\* restore_resources called for one process.
RestoreResources ==
    \E pid \in Pids :
    \E wfail \in SUBSET ({"gpu_power_limit", "ionice_class"}
                         \cap RestoreCalls(Get(original_resource_limits @@ (pid :> EmptyDict), pid))) :
      LET saved == Get(original_resource_limits, pid)
          had == IF pid \in DOMAIN original_resource_limits
                 THEN DOMAIN original_resource_limits[pid] ELSE {}
          calls == IF had = {} THEN {} ELSE RestoreCalls(original_resource_limits[pid])
      IN /\ SetMachine(restore_resources(Machine, pid, wfail))
         /\ UNCHANGED <<qVars, auxVars>>
         /\ firstSeen' = [firstSeen EXCEPT ![pid] = EmptyDict]
         /\ lastOp' = [op |-> "restore", pid |-> pid, raised |-> FALSE,
                       failed |-> wfail \cap calls # {}, recorded |-> had,
                       known |-> {k \in had : saved[k] # None}, calls |-> calls,
                       created |-> ""]
         /\ roundTrip' =
              IF roundTrip.phase = "applied" /\ roundTrip.pid = pid
              THEN [roundTrip EXCEPT !.phase = "restored",
                                     !.clean = @ /\ wfail \cap calls = {}]
              ELSE Idle

\* The frequency governor changes the CPU frequency on its own.
GovernorStep ==
    /\ \E f \in FreqLevels \ {cpu_freq_now} : cpu_freq_now' = f
    /\ UNCHANGED <<original_resource_limits, gpu_limit_mw, ionice, affinity, firstSeen>>
    /\ UNCHANGED <<qVars, auxVars>>
    /\ lastOp' = NoOp
    /\ roundTrip' = Idle

Next == ApplyCloakStrategy \/ RestoreResources \/ GovernorStep

Spec == Init /\ [][Next]_vars

\* ------------------------------------------------------------------------
\* The adjustment queue by itself: puts by the producers, gets by the
\* executor (SpecHeap)
\* ------------------------------------------------------------------------

\* The (priority, task) tuples the producers put: the monitor's threshold
\* checks, the optimizer, the cloak-request intake, and the function-call
\* tasks of apply_recommended_action.
ProducedTasks ==
    {<<RestorePriority, Task("restore", Worker, "restore")>>,
     <<MonitoringPriority, Task("monitoring", Worker, "cpu")>>,
     <<MonitoringPriority, Task("monitoring", Worker, "gpu")>>,
     <<OptimizationPriority, Task("optimization", Worker, "action")>>,
     <<CloakingPriority, Task("cloaking", Worker, "gpu")>>}
    \cup {<<FunctionPriority, Task("function", Worker, RecommendedFunctions[i])>> :
            i \in 1..Len(RecommendedFunctions)}

\* resource_adjustment_queue.put((priority, task))
QueuePut ==
    /\ Len(puts) < MaxQueued
    /\ \E pt \in ProducedTasks :
         LET r == heappush(resource_adjustment_queue,
                           [prio |-> pt[1], task |-> pt[2], seq |-> Len(puts) + 1])
         IN /\ resource_adjustment_queue' = r.heap
            /\ puts' = Append(puts, [prio |-> pt[1], ok |-> ~r.raised])
    /\ UNCHANGED <<smVars, histVars, auxVars, cloaking_request_queue, stop_event, thread,
                   monitor_pc, stop_pc, put_count, executed, overlap, get_raised>>

\* resource_adjustment_queue.get() by the executor, which then runs the task.
QueueGet ==
    /\ resource_adjustment_queue # <<>>
    /\ LET g == heappop(resource_adjustment_queue)
       IN /\ resource_adjustment_queue' = g.heap
          /\ get_raised' = g.raised
          /\ executed' = IF g.raised THEN executed ELSE Append(executed, g.item.seq)
    /\ UNCHANGED <<smVars, histVars, auxVars, cloaking_request_queue, stop_event, thread,
                   monitor_pc, stop_pc, put_count, puts, overlap>>

NextHeap == QueuePut \/ QueueGet

SpecHeap == Init /\ [][NextHeap]_vars

\* ------------------------------------------------------------------------
\* ResourceManager: the worker threads, the executor and stop() (SpecQ)
\* ------------------------------------------------------------------------

\* One put on resource_adjustment_queue by a worker thread; a put that
\* raises is logged by the loop of the thread.
PutTask(prio, task) ==
    /\ resource_adjustment_queue' =
          heappush(resource_adjustment_queue, [prio |-> prio, task |-> task, seq |-> 0]).heap
    /\ put_count' = put_count + 1

\* ResourceManager.start -> start_threads
Start ==
    /\ \A t \in Threads : thread[t] = "new"
    /\ thread' = [t \in Threads |-> "running"]
    /\ UNCHANGED <<smVars, histVars, auxVars, resource_adjustment_queue, cloaking_request_queue,
                   stop_event, monitor_pc, stop_pc, put_count, puts, executed, overlap, get_raised>>

\* monitor_and_adjust, first half of a tick: metrics are refreshed and
\* allocate_resources_with_priority enters shared_resource_manager.adjust_cpu_threads.
MonitorAllocate ==
    /\ thread["monitor"] = "running" /\ monitor_pc = "idle" /\ ~stop_event
    /\ monitor_pc' = "alloc"
    /\ UNCHANGED <<smVars, histVars, auxVars, resource_adjustment_queue, cloaking_request_queue,
                   stop_event, thread, stop_pc, put_count, puts, executed, overlap, get_raised>>

\* Readings of a tick: nothing to report, a device over its ceiling, or
\* everything back under the ceilings.
Readings == {"quiet", "cpu", "gpu", "cool"}

\* monitor_and_adjust, second half of a tick: adjust_cpu_threads returns,
\* then the threshold checks put a monitoring task (a restore task when the
\* readings are back under the ceilings).
MonitorCheck ==
    /\ thread["monitor"] = "running" /\ monitor_pc = "alloc"
    /\ monitor_pc' = "idle"
    /\ SetMachine(adjust_cpu_threads(Machine, Worker, cpu_count, TRUE))
    /\ \E reading \in Readings :
         IF reading = "quiet"
         THEN UNCHANGED <<resource_adjustment_queue, put_count>>
         ELSE /\ put_count < MaxPuts
              /\ IF reading = "cool"
                 THEN PutTask(RestorePriority, Task("restore", Worker, "restore"))
                 ELSE PutTask(MonitoringPriority, Task("monitoring", Worker, reading))
    /\ UNCHANGED <<histVars, auxVars, cloaking_request_queue, stop_event, thread, stop_pc,
                   puts, executed, overlap, get_raised>>

\* The monitor sees stop_event set before its next tick and returns.
MonitorExit ==
    /\ thread["monitor"] = "running" /\ monitor_pc = "idle" /\ stop_event
    /\ thread' = [thread EXCEPT !["monitor"] = "done"]
    /\ UNCHANGED <<smVars, histVars, auxVars, resource_adjustment_queue, cloaking_request_queue,
                   stop_event, monitor_pc, stop_pc, put_count, puts, executed, overlap, get_raised>>

\* optimize_resources: one tick puts the action recommended by the model.
OptimizerTick ==
    /\ thread["optimizer"] = "running" /\ ~stop_event
    /\ put_count < MaxPuts
    /\ PutTask(OptimizationPriority, Task("optimization", Worker, "action"))
    /\ UNCHANGED <<smVars, histVars, auxVars, cloaking_request_queue, stop_event, thread,
                   monitor_pc, stop_pc, puts, executed, overlap, get_raised>>

\* The optimizer sees stop_event set before its next tick and returns.
OptimizerExit ==
    /\ thread["optimizer"] = "running" /\ stop_event
    /\ thread' = [thread EXCEPT !["optimizer"] = "done"]
    /\ UNCHANGED <<smVars, histVars, auxVars, resource_adjustment_queue, cloaking_request_queue,
                   stop_event, monitor_pc, stop_pc, put_count, puts, executed, overlap, get_raised>>

\* The anomaly detector hands a cloak request to cloaking_request_queue.
AnomalyRequest ==
    /\ stop_pc = "idle"
    /\ put_count + cloaking_request_queue < MaxPuts
    /\ cloaking_request_queue' = cloaking_request_queue + 1
    /\ UNCHANGED <<smVars, histVars, auxVars, resource_adjustment_queue, stop_event, thread,
                   monitor_pc, stop_pc, put_count, puts, executed, overlap,
                   get_raised>>

\* process_cloaking_requests: a request is taken and forwarded as a
\* cloaking task.
CloakingIntake ==
    /\ thread["cloaking"] = "running" /\ ~stop_event
    /\ cloaking_request_queue > 0
    /\ cloaking_request_queue' = cloaking_request_queue - 1
    /\ PutTask(CloakingPriority, Task("cloaking", Worker, "gpu"))
    /\ UNCHANGED <<smVars, histVars, auxVars, stop_event, thread, monitor_pc, stop_pc,
                   puts, executed, overlap, get_raised>>

\* The intake sees stop_event set after its queue wait and returns.
CloakingExit ==
    /\ thread["cloaking"] = "running" /\ stop_event
    /\ thread' = [thread EXCEPT !["cloaking"] = "done"]
    /\ UNCHANGED <<smVars, histVars, auxVars, resource_adjustment_queue, cloaking_request_queue,
                   stop_event, monitor_pc, stop_pc, put_count, puts, executed, overlap, get_raised>>

\* getattr(shared_resource_manager, function)(*args) of a function-call task.
call_function(M, name, pid) ==
    CASE name = "adjust_cpu_threads"       -> adjust_cpu_threads(M, pid, 1, TRUE)
      [] name = "adjust_ram_allocation"    -> adjust_ram_allocation(M, pid, 1024)
      [] name = "adjust_network_bandwidth" -> adjust_network_bandwidth(M, pid, 50)
      [] OTHER                             -> M

\* apply_recommended_action going on to its cache strategy after a put
\* that raised.
apply_recommended_action_goes_on(M, h, pid, created) ==
    LET tasks == [i \in 1..Len(RecommendedFunctions) |->
                     Task("function", pid, RecommendedFunctions[i])]
        r == PutAll(h, tasks, FunctionPriority)
        c == apply_cloak_strategy(M, pid, created, "drop_caches" :> 1, {}, {})
    IN [m |-> c.m, heap |-> r.heap, raised |-> r.raised \/ c.raised,
        made |-> r.made, cache |-> ~c.raised]

\* apply_recommended_action: five function-call tasks are put, then the
\* cache strategy is applied; the first exception ends the sequence and is
\* logged.  made is the number of puts begun, cache whether the cache
\* strategy was applied.
apply_recommended_action(M, h, pid, created) ==
    LET tasks == [i \in 1..Len(RecommendedFunctions) |->
                     Task("function", pid, RecommendedFunctions[i])]
        r == PutAll(h, tasks, FunctionPriority)
    IN IF r.raised
       THEN [m |-> M, heap |-> r.heap, raised |-> TRUE, made |-> r.made, cache |-> FALSE]
       ELSE LET c == apply_cloak_strategy(M, pid, created, "drop_caches" :> 1, {}, {})
            IN [m |-> c.m, heap |-> r.heap, raised |-> c.raised,
                made |-> r.made, cache |-> ~c.raised]

\* Adapter methods of SharedResourceManager a function-call task can name.
KnownFunctions == {RecommendedFunctions[i] : i \in 1..Len(RecommendedFunctions)}

\* execute_adjustment_task with no handler around the task: what is raised
\* while the task runs reaches the loop of the executor.
execute_adjustment_task_uncaught(M, h, task, created, adj) ==
    CASE task.type = "function" ->
            [m |-> call_function(M, task.arg, task.pid), heap |-> h,
             raised |-> FALSE, logged |-> FALSE,
             propagated |-> task.arg \notin KnownFunctions]
      [] task.type \in {"monitoring", "cloaking"} ->
            LET c == apply_cloak_strategy(M, task.pid, created, adj, {}, {})
            IN [m |-> c.m, heap |-> h, raised |-> c.raised, logged |-> FALSE,
                propagated |-> c.raised]
      [] task.type = "optimization" ->
            LET r == apply_recommended_action(M, h, task.pid, created)
            IN [m |-> r.m, heap |-> r.heap, raised |-> r.raised, logged |-> FALSE,
                propagated |-> r.raised]
      [] task.type = "restore" ->
            [m |-> restore_resources(M, task.pid, {}), heap |-> h,
             raised |-> FALSE, logged |-> FALSE, propagated |-> FALSE]
      [] OTHER -> [m |-> M, heap |-> h, raised |-> FALSE, logged |-> TRUE,
                   propagated |-> FALSE]

\* execute_adjustment_task: the machine and the heap after the task, whether
\* something was raised while it ran, whether a failure was logged (an
\* exception, an unknown function name, an unknown task type) and whether
\* an exception left the method.
execute_adjustment_task(M, h, task, created, adj) ==
    CASE task.type = "function" ->
            [m |-> call_function(M, task.arg, task.pid), heap |-> h,
             raised |-> FALSE, logged |-> task.arg \notin KnownFunctions,
             propagated |-> FALSE]
      [] task.type \in {"monitoring", "cloaking"} ->
            LET c == apply_cloak_strategy(M, task.pid, created, adj, {}, {})
            IN [m |-> c.m, heap |-> h, raised |-> c.raised, logged |-> c.raised,
                propagated |-> FALSE]
      [] task.type = "optimization" ->
            LET r == apply_recommended_action(M, h, task.pid, created)
            IN [m |-> r.m, heap |-> r.heap, raised |-> r.raised, logged |-> r.raised,
                propagated |-> FALSE]
      [] task.type = "restore" ->
            [m |-> restore_resources(M, task.pid, {}), heap |-> h,
             raised |-> FALSE, logged |-> FALSE, propagated |-> FALSE]
      [] OTHER -> [m |-> M, heap |-> h, raised |-> FALSE, logged |-> TRUE,
                   propagated |-> FALSE]

\* The strategy a task applies.
StrategyOf(task) ==
    IF task.type \in {"monitoring", "cloaking"} THEN task.arg ELSE "cache"

\* History of the executor: "failed" once a task has ended in a logged
\* failure, "went_on" once a later task has run without one.
NoteTask(log, failure) ==
    IF failure THEN (IF log = "none" THEN "failed" ELSE log)
    ELSE IF log = "failed" THEN "went_on" ELSE log

\* The adapter calls that take effect while a task runs: the method a
\* function-call task names, drop_caches when apply_recommended_action gets
\* as far as its cache strategy.
TaskEffects(h, task, created) ==
    CASE task.type = "function" ->
            IF task.arg \in KnownFunctions THEN <<task.arg>> ELSE <<>>
      [] task.type = "optimization" ->
            LET tasks == [i \in 1..Len(RecommendedFunctions) |->
                             Task("function", task.pid, RecommendedFunctions[i])]
            IN IF PutAll(h, tasks, FunctionPriority).raised \/ created # "ok"
               THEN <<>> ELSE <<"drop_caches">>
      [] OTHER -> <<>>

\* History of the executor: the effects since the last optimization task.
NoteEffects(log, h, task, created) ==
    IF task.type = "optimization"
    THEN [applied |-> TRUE, effects |-> TaskEffects(h, task, created)]
    ELSE IF log.applied
         THEN [log EXCEPT !.effects = log.effects \o TaskEffects(h, task, created)]
         ELSE log

\* History of the executor: what the last optimization task did to the
\* queue and how it ended.
NoteAction(last, M, h, task, created, x) ==
    IF task.type # "optimization" THEN last
    ELSE LET r == apply_recommended_action(M, h, task.pid, created)
         IN [ran |-> TRUE, pid |-> task.pid, before |-> h, after |-> x.heap,
             made |-> r.made, cache |-> r.cache, raised |-> x.raised,
             logged |-> x.logged, propagated |-> x.propagated]

\* resource_adjustment_handler: the body of the loop with a task waiting.
\* A get that raises is logged and the loop goes on; an exception that
\* leaves execute_adjustment_task would end the thread.
ExecutorTurn(noting) ==
    /\ resource_adjustment_queue # <<>>
    /\ LET g == heappop(resource_adjustment_queue)
       IN IF g.raised
          THEN /\ resource_adjustment_queue' = g.heap
               /\ UNCHANGED <<smVars, overlap, thread, task_log, actVars>>
          ELSE \E created \in {"ok", "raises"} :
               \E adj \in StrategyApply(StrategyOf(g.item.task)) :
                 LET x == execute_adjustment_task(Machine, g.heap, g.item.task, created, adj)
                 IN /\ SetMachine(x.m)
                    /\ resource_adjustment_queue' = x.heap
                    /\ overlap' = (overlap \/ monitor_pc = "alloc")
                    /\ thread' = IF x.propagated
                                 THEN [thread EXCEPT !["executor"] = "crashed"]
                                 ELSE thread
                    /\ task_log' = IF noting THEN NoteTask(task_log, x.logged)
                                   ELSE task_log
                    /\ action_log' = IF noting
                                     THEN NoteEffects(action_log, g.heap, g.item.task, created)
                                     ELSE action_log
                    /\ last_action' = IF noting
                                      THEN NoteAction(last_action, Machine, g.heap,
                                                      g.item.task, created, x)
                                      ELSE last_action
    /\ UNCHANGED <<histVars, optVars, monVars, envVars, moreVars, cloaking_request_queue, stop_event, monitor_pc,
                   stop_pc, put_count, puts, executed, get_raised>>

\* The executor thread among the other threads.
ExecutorStep ==
    /\ thread["executor"] = "running" /\ ~stop_event
    /\ ExecutorTurn(FALSE)

\* The executor sees stop_event set after its queue wait and returns.
ExecutorExit ==
    /\ thread["executor"] = "running" /\ stop_event
    /\ thread' = [thread EXCEPT !["executor"] = "done"]
    /\ UNCHANGED <<smVars, histVars, auxVars, resource_adjustment_queue, cloaking_request_queue,
                   stop_event, monitor_pc, stop_pc, put_count, puts, executed, overlap, get_raised>>

\* stop() without its stop_event.set().
StopBegin_noset ==
    /\ stop_pc = "idle"
    /\ \A t \in Threads : thread[t] # "new"
    /\ stop_pc' = "joining"
    /\ UNCHANGED <<smVars, histVars, auxVars, resource_adjustment_queue, cloaking_request_queue,
                   stop_event, thread, monitor_pc, put_count, puts, executed, overlap,
                   get_raised>>

\* ResourceManager.stop, up to the join: the event is set.
StopBegin ==
    /\ stop_pc = "idle"
    /\ \A t \in Threads : thread[t] # "new"
    /\ stop_event' = TRUE
    /\ stop_pc' = "joining"
    /\ UNCHANGED <<smVars, histVars, auxVars, resource_adjustment_queue, cloaking_request_queue,
                   thread, monitor_pc, put_count, puts, executed, overlap,
                   get_raised>>

\* ResourceManager.stop, the rest: join_threads returns when the four
\* threads have ended, then shutdown_power_management releases the handles.
StopFinish ==
    /\ stop_pc = "joining"
    /\ \A t \in Threads : thread[t] = "done"
    /\ stop_pc' = "stopped"
    /\ UNCHANGED <<smVars, histVars, auxVars, resource_adjustment_queue, cloaking_request_queue,
                   stop_event, thread, monitor_pc, put_count, puts, executed, overlap, get_raised>>

NextQ ==
    \/ Start
    \/ MonitorAllocate \/ MonitorCheck \/ MonitorExit
    \/ OptimizerTick \/ OptimizerExit
    \/ AnomalyRequest \/ CloakingIntake \/ CloakingExit
    \/ ExecutorStep \/ ExecutorExit
    \/ StopBegin \/ StopFinish

SpecQ == Init /\ [][NextQ]_vars

\* ------------------------------------------------------------------------
\* The executor by itself: tasks are put on the queue and the executor
\* thread runs them (SpecExec)
\* ------------------------------------------------------------------------

\* The (priority, task) tuples put on the queue: those of the producers, a
\* function-call task naming no method of SharedResourceManager and a task
\* of a type the executor does not know.
SubmittedTasks ==
    ProducedTasks
    \cup {<<FunctionPriority, Task("function", Worker, "unknown_function")>>,
          <<MonitoringPriority, Task("unknown_type", Worker, "none")>>}

\* resource_adjustment_queue.put((priority, task)) by any caller.
SubmitTask ==
    /\ put_count < MaxPuts
    /\ \E pt \in SubmittedTasks : PutTask(pt[1], pt[2])
    /\ UNCHANGED <<smVars, histVars, auxVars, cloaking_request_queue, stop_event, thread,
                   monitor_pc, stop_pc, puts, executed, overlap, get_raised>>

\* The executor thread, with the outcome of each task noted.
ExecutorRun ==
    /\ thread["executor"] = "running" /\ ~stop_event
    /\ ExecutorTurn(TRUE)

NextExec == Start \/ SubmitTask \/ ExecutorRun

SpecExec == Init /\ [][NextExec]_vars

\* The scheduler lets every thread run: a tick that has begun is finished,
\* a loop whose waits are bounded by timeouts comes back to its test of
\* stop_event, and join returns once the threads have ended.
SpecQFair ==
    /\ SpecQ
    /\ WF_vars(MonitorCheck) /\ WF_vars(MonitorExit)
    /\ WF_vars(OptimizerExit) /\ WF_vars(CloakingExit) /\ WF_vars(ExecutorExit)
    /\ WF_vars(StopFinish)

\* ------------------------------------------------------------------------
\* An optimization action applied twice to the worker (SpecOpt)
\* ------------------------------------------------------------------------

\* The host has some disk I/O limit for the worker before an action.
OptHost ==
    /\ opt.applied = 0
    /\ \E d \in DiskLimits : opt' = [NoAction EXCEPT !.knobs = HostKnobs(d)]
    /\ UNCHANGED <<smVars, histVars, qVars, task_log, monVars, actVars, envVars, moreVars>>

\* The function calls of one action are run; the second time it is the
\* same action under the same conditions.
OptApply ==
    /\ opt.applied < 2
    /\ \E pid \in Pids, v \in ActionVectors,
          fails \in SUBSET {"cpu_threads", "gpu_usage", "disk_io"} :
         /\ opt.applied = 1 => (pid = opt.pid /\ v = opt.action /\ fails = opt.fails)
         /\ LET k == apply_action(opt.knobs, pid, v, fails)
            IN opt' = [applied |-> opt.applied + 1, pid |-> pid, action |-> v,
                       fails |-> fails,
                       knobs |-> k,
                       before |-> IF opt.applied = 0 THEN opt.knobs ELSE opt.before,
                       first |-> IF opt.applied = 0 THEN k ELSE opt.first]
    /\ UNCHANGED <<smVars, histVars, qVars, task_log, monVars, actVars, envVars, moreVars>>

\* Another action comes later.
OptNext ==
    /\ opt.applied = 2
    /\ opt' = [NoAction EXCEPT !.knobs = opt.knobs]
    /\ UNCHANGED <<smVars, histVars, qVars, task_log, monVars, actVars, envVars, moreVars>>

NextOpt == OptHost \/ OptApply \/ OptNext

SpecOpt == Init /\ [][NextOpt]_vars

\* ------------------------------------------------------------------------
\* The monitor's threshold checks and the queue (SpecMon)
\* ------------------------------------------------------------------------

\* monitor_and_adjust, the checks of one tick for one process:
\* check_temperature_and_enqueue, then check_power_and_enqueue.  When the
\* put of the first check raises, the second check is reached or not.
MonitorTick ==
    /\ Len(resource_adjustment_queue) + 2 <= MaxQueued
    /\ \E pid \in Pids, returned \in [Sensors -> SensorReturns], goes_on \in BOOLEAN :
         LET readings == [s \in Sensors |-> ReadingOf(s, returned[s])]
             t == check_temperature_and_enqueue(resource_adjustment_queue, pid, readings)
             checked == ~t.raised \/ goes_on
             w == IF checked THEN check_power_and_enqueue(t.heap, pid, readings)
                  ELSE [heap |-> t.heap, put |-> <<>>, raised |-> FALSE]
         IN /\ t.raised \/ goes_on
            /\ resource_adjustment_queue' = w.heap
            /\ tick' = [pid |-> pid, readings |-> readings,
                        no_data |-> {s \in Sensors : returned[s] = "no_data"},
                        temperature |-> t.put, power |-> w.put, power_checked |-> checked]
    /\ UNCHANGED <<smVars, histVars, task_log, optVars, actVars, envVars, moreVars,
                   cloaking_request_queue,
                   stop_event,
                   thread, monitor_pc, stop_pc, put_count, puts, executed, overlap, get_raised>>

\* The executor takes the task at the head of the queue.
TaskTaken ==
    /\ resource_adjustment_queue # <<>>
    /\ resource_adjustment_queue' = heappop(resource_adjustment_queue).heap
    /\ UNCHANGED <<smVars, histVars, auxVars, cloaking_request_queue, stop_event,
                   thread, monitor_pc, stop_pc, put_count, puts, executed, overlap, get_raised>>

NextMon == MonitorTick \/ TaskTaken

SpecMon == Init /\ [][NextMon]_vars

\* ------------------------------------------------------------------------
\* Cloaking on a reading and restoring afterwards (SpecRestore)
\* ------------------------------------------------------------------------

\* From now on every reading of the worker is under its ceiling.
ReadingsSettle ==
    /\ ~calm
    /\ calm' = TRUE
    /\ UNCHANGED <<smVars, histVars, qVars, task_log, optVars, monVars, actVars, moreVars>>

\* monitor_and_adjust, one tick for the worker: a device over its ceiling
\* gives a monitoring task; with the readings under the ceilings and limits
\* of the worker on record, a restore task is put.
MonitorWatch ==
    /\ thread["monitor"] = "running" /\ ~stop_event
    /\ Len(resource_adjustment_queue) < MaxQueued
    /\ IF calm
       THEN /\ Worker \in DOMAIN original_resource_limits
            /\ resource_adjustment_queue' =
                 heappush(resource_adjustment_queue,
                          [prio |-> RestorePriority,
                           task |-> Task("restore", Worker, "restore"), seq |-> 0]).heap
       ELSE \E device \in {"cpu", "gpu"} :
              resource_adjustment_queue' =
                 heappush(resource_adjustment_queue,
                          [prio |-> MonitoringPriority,
                           task |-> Task("monitoring", Worker, device), seq |-> 0]).heap
    /\ UNCHANGED <<smVars, histVars, auxVars, cloaking_request_queue, stop_event, thread,
                   monitor_pc, stop_pc, put_count, puts, executed, overlap, get_raised>>

NextRestore == Start \/ ReadingsSettle \/ MonitorWatch \/ ExecutorStep

SpecRestore == Init /\ [][NextRestore]_vars

\* The monitor keeps ticking and the executor keeps taking tasks.
SpecRestoreFair ==
    /\ SpecRestore
    /\ WF_vars(MonitorWatch) /\ WF_vars(ExecutorStep)

\* ------------------------------------------------------------------------
\* adjust_cpu_threads among cloaks and restores (SpecCpu)
\* ------------------------------------------------------------------------

\* SharedResourceManager.adjust_cpu_threads(pid, cpu_threads, name); taskset
\* succeeds or exits with an error.
AdjustCpuThreads ==
    /\ \E pid \in Pids, n \in ThreadCounts, ok \in BOOLEAN :
         /\ SetMachine(adjust_cpu_threads(Machine, pid, n, ok))
         /\ cpu_call' = [pid |-> pid, cpu_threads |-> n, ok |-> ok,
                         warned |-> cpu_threads_warning(n),
                         affinity |-> affinity[pid], limits |-> original_resource_limits]
    /\ UNCHANGED <<histVars, qVars, task_log, optVars, monVars, actVars, envVars, gpuVars, lateVars>>

\* apply_cloak_strategy between two calls, every adapter succeeding.
CloakBetween ==
    /\ \E req \in Requests : \E adj \in StrategyApply(req[2]) :
         SetMachine(apply_cloak_strategy(Machine, req[1], "ok", adj, {}, {}).m)
    /\ cpu_call' = NoCall
    /\ UNCHANGED <<histVars, qVars, task_log, optVars, monVars, actVars, envVars, gpuVars, lateVars>>

\* restore_resources between two calls.
RestoreBetween ==
    /\ \E pid \in DOMAIN original_resource_limits :
         SetMachine(restore_resources(Machine, pid, {}))
    /\ cpu_call' = NoCall
    /\ UNCHANGED <<histVars, qVars, task_log, optVars, monVars, actVars, envVars, gpuVars, lateVars>>

NextCpu == AdjustCpuThreads \/ CloakBetween \/ RestoreBetween

SpecCpu == Init /\ [][NextCpu]_vars

\* ------------------------------------------------------------------------
\* adjust_gpu_power_limit on a host that loses NVML (SpecGpu)
\* ------------------------------------------------------------------------

\* From now on every NVML call raises.
NvmlLost ==
    /\ gpu_adapter.nvml = "ok"
    /\ gpu_adapter' = [gpu_adapter EXCEPT !.nvml = "gone"]
    /\ UNCHANGED <<smVars, histVars, qVars, task_log, optVars, monVars, actVars, envVars,
                   cpu_call, lateVars>>

\* History of adjust_gpu_power_limit: a call that fails is logged as an
\* error; again is set by a failing call that follows a failed one.
NoteGpuCall(g, called) ==
    IF called /\ g.nvml = "gone"
    THEN [g EXCEPT !.failed = TRUE, !.again = g.failed]
    ELSE g

\* A task that cloaks: apply_cloak_strategy, whose execute_adjustments calls
\* adjust_gpu_power_limit for a 'gpu_power_limit' adjustment.
CloakTask ==
    /\ \E req \in Requests : \E adj \in StrategyApply(req[2]) :
         LET called == "gpu_power_limit" \in DOMAIN adj
             wfail == IF gpu_adapter.nvml = "gone" THEN {"gpu_power_limit"} ELSE {}
         IN /\ SetMachine(apply_cloak_strategy(Machine, req[1], "ok", adj, {}, wfail).m)
            /\ gpu_adapter' = NoteGpuCall(gpu_adapter, called)
    /\ UNCHANGED <<histVars, qVars, task_log, optVars, monVars, actVars, envVars, cpu_call, lateVars>>

\* A restore task: restore_resources, which calls adjust_gpu_power_limit for
\* a saved 'gpu_power_limit'.
RestoreTask ==
    /\ \E pid \in DOMAIN original_resource_limits :
         LET called == "gpu_power_limit" \in RestoreCalls(original_resource_limits[pid])
             wfail == IF gpu_adapter.nvml = "gone" THEN {"gpu_power_limit"} ELSE {}
         IN /\ SetMachine(restore_resources(Machine, pid, wfail))
            /\ gpu_adapter' = NoteGpuCall(gpu_adapter, called)
    /\ UNCHANGED <<histVars, qVars, task_log, optVars, monVars, actVars, envVars, cpu_call, lateVars>>

NextGpu == NvmlLost \/ CloakTask \/ RestoreTask

SpecGpu == Init /\ [][NextGpu]_vars

\* ------------------------------------------------------------------------
\* Metric samples of processes that may have exited (SpecProc)
\* ------------------------------------------------------------------------

\* cpu_percent readings of a process that exists.
CpuPercents == {10, 50}

\* MiningProcess.update_resource_usage: the metrics are read from psutil;
\* psutil.NoSuchProcess is caught, logged as an error, and the metrics are
\* set to zero.  Nothing is raised and nothing but the metrics is written.
update_resource_usage(pid, exists, cpu_percent) ==
    IF exists
    THEN [pid |-> pid, gone |-> FALSE, logged |-> FALSE, cpu_usage |-> cpu_percent]
    ELSE [pid |-> pid, gone |-> TRUE, logged |-> TRUE, cpu_usage |-> 0]

\* discover_mining_processes: the list is built again from
\* psutil.process_iter.
discover_mining_processes(running) == running

\* ResourceManager.start and every monitor round call discover_mining_processes.
DiscoverMiningProcesses ==
    /\ mining_processes # discover_mining_processes(alive)
    /\ mining_processes' = discover_mining_processes(alive)
    /\ UNCHANGED <<alive, sample>>
    /\ UNCHANGED <<smVars, histVars, qVars, task_log, optVars, monVars, actVars, envVars,
                   cpu_call, gpuVars, is_cloaked, tailVars>>

\* A managed process exits.
ProcessExits ==
    /\ \E p \in alive : alive' = alive \ {p}
    /\ UNCHANGED <<mining_processes, sample>>
    /\ UNCHANGED <<smVars, histVars, qVars, task_log, optVars, monVars, actVars, envVars,
                   cpu_call, gpuVars, is_cloaked, tailVars>>

\* The monitor samples the metrics of a process of the list.
MetricSample ==
    /\ \E p \in mining_processes, c \in CpuPercents :
         sample' = update_resource_usage(p, p \in alive, c)
    /\ UNCHANGED <<mining_processes, alive>>
    /\ UNCHANGED <<smVars, histVars, qVars, task_log, optVars, monVars, actVars, envVars,
                   cpu_call, gpuVars, is_cloaked, tailVars>>

\* A cloak task of a process of the list is run.
CloakManaged ==
    /\ \E req \in Requests : \E adj \in StrategyApply(req[2]) :
         /\ req[1] \in mining_processes
         /\ SetMachine(apply_cloak_strategy(Machine, req[1], "ok", adj, {}, {}).m)
    /\ sample' = NoSample
    /\ UNCHANGED <<mining_processes, alive>>
    /\ UNCHANGED <<histVars, qVars, task_log, optVars, monVars, actVars, envVars,
                   cpu_call, gpuVars, is_cloaked, tailVars>>

\* A restore task is run.
RestoreManaged ==
    /\ \E pid \in DOMAIN original_resource_limits :
         SetMachine(restore_resources(Machine, pid, {}))
    /\ sample' = NoSample
    /\ UNCHANGED <<mining_processes, alive>>
    /\ UNCHANGED <<histVars, qVars, task_log, optVars, monVars, actVars, envVars,
                   cpu_call, gpuVars, is_cloaked, tailVars>>

NextProc ==
    DiscoverMiningProcesses \/ ProcessExits \/ MetricSample \/ CloakManaged \/ RestoreManaged

SpecProc == Init /\ [][NextProc]_vars

\* ------------------------------------------------------------------------
\* ResourceManager(...) called by several threads (SpecNew)
\* ------------------------------------------------------------------------

\* __new__: under _instance_lock, the instance is made when there is none.
ResourceManagerNew(c) ==
    /\ ctor_pc[c] = "idle"
    /\ ctor_calls < MaxConstructions
    /\ ctor_calls' = ctor_calls + 1
    /\ instances' = IF instances = 0 THEN 1 ELSE instances
    /\ ctor_pc' = [ctor_pc EXCEPT ![c] = "init"]
    /\ UNCHANGED <<initialized, rm_fields, rm_replaced>>
    /\ UNCHANGED <<beforeCtorVars, supVars, endVars>>

\* __init__ up to its test:
\*   if hasattr(self, '_initialized') and self._initialized: return
InitTest(c) ==
    /\ ctor_pc[c] = "init"
    /\ ctor_pc' = [ctor_pc EXCEPT ![c] = IF initialized THEN "returned" ELSE "tested"]
    /\ UNCHANGED <<instances, initialized, ctor_calls, rm_fields, rm_replaced>>
    /\ UNCHANGED <<beforeCtorVars, supVars, endVars>>

\* self._initialized = True
InitMark(c) ==
    /\ ctor_pc[c] = "tested"
    /\ initialized' = TRUE
    /\ ctor_pc' = [ctor_pc EXCEPT ![c] = "marked"]
    /\ UNCHANGED <<instances, ctor_calls, rm_fields, rm_replaced>>
    /\ UNCHANGED <<beforeCtorVars, supVars, endVars>>

\* The rest of __init__: stop_event = Event(), the two queues, the list of
\* processes, initialize_threads().
InitFields(c) ==
    /\ ctor_pc[c] = "marked"
    /\ rm_fields' = c
    /\ rm_replaced' = (rm_replaced \/ rm_fields # 0)
    /\ ctor_pc' = [ctor_pc EXCEPT ![c] = "returned"]
    /\ UNCHANGED <<instances, initialized, ctor_calls>>
    /\ UNCHANGED <<beforeCtorVars, supVars, endVars>>

\* The caller has its instance and may call ResourceManager(...) again.
CallerGoesOn(c) ==
    /\ ctor_pc[c] = "returned"
    /\ ctor_pc' = [ctor_pc EXCEPT ![c] = "idle"]
    /\ UNCHANGED <<instances, initialized, ctor_calls, rm_fields, rm_replaced>>
    /\ UNCHANGED <<beforeCtorVars, supVars, endVars>>

NextNew ==
    \E c \in Callers :
        \/ ResourceManagerNew(c)
        \/ InitTest(c)
        \/ InitMark(c)
        \/ InitFields(c)
        \/ CallerGoesOn(c)

SpecNew == Init /\ [][NextNew]_vars

\* ------------------------------------------------------------------------
\* start_mining.main, its resource thread and the stop signals (SpecSup)
\* ------------------------------------------------------------------------

\* system_manager.stop(): SystemManager.stop runs when there is an instance;
\* without one a warning is logged.
system_manager_stop(runs, instance) == IF instance THEN runs + 1 ELSE runs

\* signal_handler: SIGINT or SIGTERM sets stop_event.
SignalDelivered ==
    /\ ~signalled
    /\ main_pc \notin {"done", "exited"}
    /\ signalled' = TRUE
    /\ main_stop_event' = TRUE
    /\ UNCHANGED <<main_pc, res_pc, system_manager_instance, mining_process, stop_runs,
                   reported>>
    /\ UNCHANGED <<beforeCtorVars, ctorVars, endVars>>

\* The mining subprocess ends by itself.
MiningProcessEnds ==
    /\ mining_process = "running"
    /\ mining_process' = "ended"
    /\ UNCHANGED <<main_pc, res_pc, main_stop_event, system_manager_instance, signalled,
                   stop_runs, reported>>
    /\ UNCHANGED <<beforeCtorVars, ctorVars, endVars>>

\* main, step 1: initialize_environment; sys.exit(1) when setup_env.setup()
\* raises.
InitializeEnvironment ==
    /\ main_pc = "setup"
    /\ \E ok \in BOOLEAN : main_pc' = IF ok THEN "begin" ELSE "exited"
    /\ UNCHANGED <<res_pc, main_stop_event, system_manager_instance, mining_process,
                   signalled, stop_runs, reported>>
    /\ UNCHANGED <<beforeCtorVars, ctorVars, endVars>>

\* main, step 2: start_mining_process.  When every attempt has failed,
\* stop_event is set, system_manager.stop() is called and main exits.
StartMiningProcess ==
    /\ main_pc = "begin"
    /\ \E ok \in BOOLEAN :
         IF ok
         THEN /\ mining_process' = "running"
              /\ main_pc' = "spawn"
              /\ UNCHANGED <<main_stop_event, stop_runs>>
         ELSE /\ mining_process' = "none"
              /\ main_stop_event' = TRUE
              /\ stop_runs' = system_manager_stop(stop_runs, system_manager_instance)
              /\ main_pc' = "exited"
    /\ UNCHANGED <<res_pc, system_manager_instance, signalled, reported>>
    /\ UNCHANGED <<beforeCtorVars, ctorVars, endVars>>

\* main, step 3: resource_thread.start(); when the thread cannot be
\* started, stop_event is set, system_manager.stop() is called and main exits.
StartResourceThread ==
    /\ main_pc = "spawn"
    /\ \E ok \in BOOLEAN :
         IF ok
         THEN /\ res_pc' = "started"
              /\ main_pc' = "loop"
              /\ UNCHANGED <<main_stop_event, stop_runs>>
         ELSE /\ main_stop_event' = TRUE
              /\ stop_runs' = system_manager_stop(stop_runs, system_manager_instance)
              /\ main_pc' = "exited"
              /\ UNCHANGED res_pc
    /\ UNCHANGED <<system_manager_instance, mining_process, signalled, reported>>
    /\ UNCHANGED <<beforeCtorVars, ctorVars, endVars>>

\* main, the waiting loop: a mining process that has ended sets stop_event.
MainPoll ==
    /\ main_pc = "loop"
    /\ ~main_stop_event
    /\ mining_process = "ended"
    /\ main_stop_event' = TRUE
    /\ UNCHANGED <<main_pc, res_pc, system_manager_instance, mining_process, signalled,
                   stop_runs, reported>>
    /\ UNCHANGED <<beforeCtorVars, ctorVars, endVars>>

\* main: the loop is left when stop_event is set.
MainLeavesLoop ==
    /\ main_pc = "loop"
    /\ main_stop_event
    /\ main_pc' = "finally"
    /\ UNCHANGED <<res_pc, main_stop_event, system_manager_instance, mining_process,
                   signalled, stop_runs, reported>>
    /\ UNCHANGED <<beforeCtorVars, ctorVars, endVars>>

\* main, the finally block: a mining process still running is terminated.
MainTerminatesMining ==
    /\ main_pc = "finally"
    /\ mining_process' = IF mining_process = "running" THEN "ended" ELSE mining_process
    /\ main_pc' = "stopping"
    /\ UNCHANGED <<res_pc, main_stop_event, system_manager_instance, signalled, stop_runs,
                   reported>>
    /\ UNCHANGED <<beforeCtorVars, ctorVars, endVars>>

\* main, the finally block: system_manager.stop()
MainStopsComponents ==
    /\ main_pc = "stopping"
    /\ stop_runs' = system_manager_stop(stop_runs, system_manager_instance)
    /\ main_pc' = "stopped"
    /\ UNCHANGED <<res_pc, main_stop_event, system_manager_instance, mining_process,
                   signalled, reported>>
    /\ UNCHANGED <<beforeCtorVars, ctorVars, endVars>>

\* main: if resource_thread.is_alive(): resource_thread.join(timeout=5)
MainJoin ==
    /\ main_pc = "stopped"
    /\ main_pc' = IF res_pc = "done" THEN "done" ELSE "joining"
    /\ UNCHANGED <<res_pc, main_stop_event, system_manager_instance, mining_process,
                   signalled, stop_runs, reported>>
    /\ UNCHANGED <<beforeCtorVars, ctorVars, endVars>>

\* main: the join returns, the thread having ended or the five seconds
\* being over; a thread that is still alive is reported.
MainJoinReturns ==
    /\ main_pc = "joining"
    /\ reported' = (res_pc # "done")
    /\ main_pc' = "done"
    /\ UNCHANGED <<res_pc, main_stop_event, system_manager_instance, mining_process,
                   signalled, stop_runs>>
    /\ UNCHANGED <<beforeCtorVars, ctorVars, endVars>>

\* resource thread: system_manager.start() loads the configuration;
\* load_config leaves by sys.exit(1) when it cannot.
LoadConfig ==
    /\ res_pc = "started"
    /\ \E ok \in BOOLEAN : res_pc' = IF ok THEN "configured" ELSE "done"
    /\ UNCHANGED <<main_pc, main_stop_event, system_manager_instance, mining_process,
                   signalled, stop_runs, reported>>
    /\ UNCHANGED <<beforeCtorVars, ctorVars, endVars>>

\* resource thread: _system_manager_instance = SystemManager(config).  An
\* exception of the constructor reaches start_system_manager, which sets
\* stop_event and calls system_manager.stop().
ConstructSystemManager ==
    /\ res_pc = "configured"
    /\ \E ok \in BOOLEAN :
         IF ok
         THEN /\ system_manager_instance' = TRUE
              /\ res_pc' = "constructed"
              /\ UNCHANGED <<main_stop_event, stop_runs>>
         ELSE /\ main_stop_event' = TRUE
              /\ stop_runs' = system_manager_stop(stop_runs, system_manager_instance)
              /\ res_pc' = "done"
              /\ UNCHANGED system_manager_instance
    /\ UNCHANGED <<main_pc, mining_process, signalled, reported>>
    /\ UNCHANGED <<beforeCtorVars, ctorVars, endVars>>

\* resource thread: SystemManager.start.  When resource_manager.start() or
\* anomaly_detector.start() raises, it calls self.stop() and raises again.
SystemManagerStart ==
    /\ res_pc = "constructed"
    /\ \E ok \in BOOLEAN :
         IF ok
         THEN /\ res_pc' = "running"
              /\ UNCHANGED stop_runs
         ELSE /\ res_pc' = "start_failed"
              /\ stop_runs' = stop_runs + 1
    /\ UNCHANGED <<main_pc, main_stop_event, system_manager_instance, mining_process,
                   signalled, reported>>
    /\ UNCHANGED <<beforeCtorVars, ctorVars, endVars>>

\* resource thread: the except clause of system_manager.start():
\* _system_manager_instance.stop() and sys.exit(1), which ends the thread.
StartFailureHandled ==
    /\ res_pc = "start_failed"
    /\ stop_runs' = stop_runs + 1
    /\ res_pc' = "done"
    /\ UNCHANGED <<main_pc, main_stop_event, system_manager_instance, mining_process,
                   signalled, reported>>
    /\ UNCHANGED <<beforeCtorVars, ctorVars, endVars>>

MainStep ==
    \/ InitializeEnvironment
    \/ StartMiningProcess
    \/ StartResourceThread
    \/ MainPoll
    \/ MainLeavesLoop
    \/ MainTerminatesMining
    \/ MainStopsComponents
    \/ MainJoin
    \/ MainJoinReturns

\* A resource thread in 'while True: sleep(1)' has no further step.
ResourceThreadStep ==
    \/ LoadConfig
    \/ ConstructSystemManager
    \/ SystemManagerStart
    \/ StartFailureHandled

NextSup == SignalDelivered \/ MiningProcessEnds \/ MainStep \/ ResourceThreadStep

SpecSup == Init /\ [][NextSup]_vars

\* Both threads are scheduled as long as they have a step to take.
SpecSupFair == SpecSup /\ WF_vars(MainStep) /\ WF_vars(ResourceThreadStep)

\* ------------------------------------------------------------------------
\* Network I/O samples of one MiningProcess (SpecNet)
\* ------------------------------------------------------------------------

\* The network part of update_resource_usage, interface found: the
\* difference to the previous counters in MB, or 0.0 when there are none,
\* and the counters kept as the previous ones.
network_io_found(prev, sent, recv) ==
    [network_io |-> IF prev.sent # None /\ prev.recv # None
                    THEN ((sent - prev.sent) + (recv - prev.recv)) \div MiB
                    ELSE 0,
     prev |-> [sent |-> sent, recv |-> recv]]

\* update_resource_usage as far as network_io goes.  read is "ok",
\* "no_interface" (the interface is not in net_io_counters) or "error" (a
\* psutil call before the network part raises): the last two give 0.0 and
\* leave the previous counters as they are.
update_network_io(prev, read, sent, recv) ==
    IF read = "ok" THEN network_io_found(prev, sent, recv)
    ELSE [network_io |-> 0, prev |-> prev]

\* The interface sends or receives one more MB.
Traffic ==
    /\ bytes_sent + bytes_recv < MaxTraffic * MiB
    /\ \/ bytes_sent' = bytes_sent + MiB /\ UNCHANGED bytes_recv
       \/ bytes_recv' = bytes_recv + MiB /\ UNCHANGED bytes_sent
    /\ UNCHANGED <<prev_bytes, network_io, net_hist>>
    /\ UNCHANGED notNetVars

\* MiningProcess.update_resource_usage()
SampleNetwork ==
    /\ \E read \in {"ok", "no_interface", "error"} :
         LET r == update_network_io(prev_bytes, read, bytes_sent, bytes_recv)
         IN /\ network_io' = r.network_io
            /\ prev_bytes' = r.prev
            /\ net_hist' = [kind |-> IF read # "ok" THEN "unread"
                                     ELSE IF net_hist.sampled THEN "later" ELSE "first",
                            sampled |-> TRUE,
                            at |-> bytes_sent + bytes_recv,
                            before |-> net_hist.at]
    /\ UNCHANGED <<bytes_sent, bytes_recv>>
    /\ UNCHANGED notNetVars

\* MiningProcess.reset_network_io()
ResetNetworkIo ==
    /\ net_hist.sampled
    /\ prev_bytes' = [sent |-> None, recv |-> None]
    /\ network_io' = 0
    /\ net_hist' = [NoSamples EXCEPT !.kind = "reset"]
    /\ UNCHANGED <<bytes_sent, bytes_recv>>
    /\ UNCHANGED notNetVars

NextNet == Traffic \/ SampleNetwork \/ ResetNetworkIo

SpecNet == Init /\ [][NextNet]_vars

\* ------------------------------------------------------------------------
\* A function wrapped by retry (SpecRetry)
\* ------------------------------------------------------------------------

\* The while condition of f_retry with one attempt too many.
in_retry_loop_once_more(mtries) == mtries > 0

\* while mtries > 1
in_retry_loop(mtries) == mtries > 1

\* What the k-th call of the wrapped function returns when it returns.
ReturnOf(k) == 10 * k

\* f_retry is entered: mtries, mdelay = tries, delay
RetryInvoke ==
    /\ retry_call.pc \in {"idle", "returned", "raised"}
    /\ \E tries \in 0..MaxTries, delay \in {1, 2, 3}, backoff \in {1, 2} :
         retry_call' = [NoRetry EXCEPT !.pc = "calling", !.tries = tries, !.delay = delay,
                                       !.backoff = backoff, !.mtries = tries,
                                       !.mdelay = delay]
    /\ UNCHANGED notRetryVars

\* One call of the wrapped function: it returns, raises ExceptionToCheck
\* ("checked") or raises another exception ("other").  In the loop a checked
\* exception is followed by sleep(mdelay), mtries -= 1, mdelay *= backoff;
\* the call after the loop is outside any try.
RetryAttempt ==
    /\ retry_call.pc = "calling"
    /\ \E outcome \in {"returns", "checked", "other"} :
         LET c == [retry_call EXCEPT !.calls = @ + 1]
         IN retry_call' =
              IF outcome = "returns"
              THEN [c EXCEPT !.pc = "returned", !.result = ReturnOf(c.calls)]
              ELSE IF outcome = "checked" /\ in_retry_loop(c.mtries)
              THEN [c EXCEPT !.waits = Append(@, c.mdelay), !.mtries = @ - 1,
                             !.mdelay = @ * c.backoff]
              ELSE [c EXCEPT !.pc = "raised", !.raised = outcome]
    /\ UNCHANGED notRetryVars

NextRetry == RetryInvoke \/ RetryAttempt

SpecRetry == Init /\ [][NextRetry]_vars

\* ------------------------------------------------------------------------
\* start_mining_process (SpecStart)
\* ------------------------------------------------------------------------

\* A wait after every attempt, the last one included.
waits_after_every_attempt(attempt, retries) == attempt <= retries

\* if attempt < retries: time.sleep(delay)
waits_before_next_attempt(attempt, retries) == attempt < retries

\* start_mining_process(retries, delay) is called: for attempt in
\* range(1, retries + 1)
StartInvoke ==
    /\ start_call.pc = "idle"
    /\ \E retries \in 0..MaxRetries, delay \in {1, 5, 10} :
         start_call' = [NoStart EXCEPT !.retries = retries, !.delay = delay,
                                       !.attempt = 1,
                                       !.pc = IF retries >= 1 THEN "attempt" ELSE "after"]
    /\ UNCHANGED notStartVars

\* One attempt: Popen, two seconds of sleep, poll.  The process is alive
\* (mining_started_event is set and the process returned), has ended, or
\* Popen raised.
StartAttempt ==
    /\ start_call.pc = "attempt"
    /\ \E outcome \in {"alive", "ended", "raises"} :
         LET c == [start_call EXCEPT !.attempts = @ + 1, !.last = outcome,
                                     !.slept = IF outcome = "raises" THEN @ ELSE @ + 2]
         IN start_call' =
              IF outcome = "alive"
              THEN [c EXCEPT !.mining_started_event = TRUE, !.returned = "process",
                             !.pc = "done"]
              ELSE IF waits_before_next_attempt(c.attempt, c.retries)
              THEN [c EXCEPT !.pc = "wait"]
              ELSE [c EXCEPT !.pc = "after"]
    /\ UNCHANGED notStartVars

\* time.sleep(delay) before the next attempt
StartWait ==
    /\ start_call.pc = "wait"
    /\ start_call' = [start_call EXCEPT
                         !.waits = @ + 1, !.slept = @ + start_call.delay,
                         !.attempt = @ + 1,
                         !.pc = IF start_call.attempt < start_call.retries
                                THEN "attempt" ELSE "after"]
    /\ UNCHANGED notStartVars

\* After the loop: stop_event.set(); return None
StartGivesUp ==
    /\ start_call.pc = "after"
    /\ start_call' = [start_call EXCEPT !.stop_event = TRUE, !.returned = "None",
                                        !.pc = "done"]
    /\ UNCHANGED notStartVars

NextStart == StartInvoke \/ StartAttempt \/ StartWait \/ StartGivesUp

SpecStart == Init /\ [][NextStart]_vars

\* ------------------------------------------------------------------------
\* AIEnvironmentCloaking: cloaking_loop and cleanup (SpecCloak)
\* ------------------------------------------------------------------------

\* Activation whenever the error is above the threshold.
activates_whenever_above(error, active) == error = "above"

\* if reconstruction_error > self.cloaking_threshold: with self.lock:
\*     if not self.is_cloaking_active:
activates(error, active) == error = "above" /\ ~active

\* else: with self.lock: if self.is_cloaking_active:
deactivates(error, active) == error = "below" /\ active

\* cloaking_loop: while not self.shutdown_event.is_set()
LoopTest ==
    /\ loop_pc = "test"
    /\ shutdown_event \/ cycles < MaxCycles
    /\ IF shutdown_event
       THEN loop_pc' = "done" /\ UNCHANGED cycles
       ELSE loop_pc' = "cycle" /\ cycles' = cycles + 1
    /\ UNCHANGED <<is_cloaking_active, worker_running, shaping, niced, shutdown_event,
                   cleanup_pc, reconstruction, cloak_log>>
    /\ UNCHANGED notCloakVars

\* run_cloaking_cycle up to detect_anomaly: the error is above the
\* threshold or not; without scaled data the cycle ends here.
LoopDetect ==
    /\ loop_pc = "cycle"
    /\ \E error \in {"above", "below", "none"} :
         /\ reconstruction' = error
         /\ loop_pc' = IF error = "none" THEN "wait" ELSE "act"
    /\ UNCHANGED <<is_cloaking_active, worker_running, shaping, niced, shutdown_event,
                   cleanup_pc, cycles, cloak_log>>
    /\ UNCHANGED notCloakVars

\* perform_cloaking_actions: reduce_cpu_usage, adjust_network_bandwidth and
\* start_mining on activation; restore_cpu_usage, restore_network_bandwidth
\* and stop_mining on deactivation.
LoopAct ==
    /\ loop_pc = "act"
    /\ IF activates(reconstruction, is_cloaking_active)
       THEN /\ is_cloaking_active' = TRUE
            /\ niced' = worker_running
            /\ shaping' = TRUE
            /\ worker_running' = TRUE
            /\ cloak_log' = Append(cloak_log, "activate")
       ELSE IF deactivates(reconstruction, is_cloaking_active)
       THEN /\ is_cloaking_active' = FALSE
            /\ niced' = FALSE
            /\ shaping' = FALSE
            /\ worker_running' = FALSE
            /\ cloak_log' = Append(cloak_log, "deactivate")
       ELSE UNCHANGED <<is_cloaking_active, niced, shaping, worker_running, cloak_log>>
    /\ loop_pc' = "wait"
    /\ UNCHANGED <<shutdown_event, cleanup_pc, reconstruction, cycles>>
    /\ UNCHANGED notCloakVars

\* self.shutdown_event.wait(self.interval)
LoopWait ==
    /\ loop_pc = "wait"
    /\ loop_pc' = "test"
    /\ UNCHANGED <<is_cloaking_active, worker_running, shaping, niced, shutdown_event,
                   cleanup_pc, reconstruction, cycles, cloak_log>>
    /\ UNCHANGED notCloakVars

\* cleanup(): self.stop_mining()
CleanupStopMining ==
    /\ cleanup_pc = "idle"
    /\ worker_running' = FALSE
    /\ cleanup_pc' = "restore_cpu"
    /\ UNCHANGED <<is_cloaking_active, shaping, niced, shutdown_event, loop_pc,
                   reconstruction, cycles, cloak_log>>
    /\ UNCHANGED notCloakVars

\* cleanup(): self.restore_cpu_usage()
CleanupRestoreCpu ==
    /\ cleanup_pc = "restore_cpu"
    /\ niced' = FALSE
    /\ cleanup_pc' = "restore_network"
    /\ UNCHANGED <<is_cloaking_active, worker_running, shaping, shutdown_event, loop_pc,
                   reconstruction, cycles, cloak_log>>
    /\ UNCHANGED notCloakVars

\* cleanup(): self.restore_network_bandwidth()
CleanupRestoreNetwork ==
    /\ cleanup_pc = "restore_network"
    /\ shaping' = FALSE
    /\ cleanup_pc' = "set_event"
    /\ UNCHANGED <<is_cloaking_active, worker_running, niced, shutdown_event, loop_pc,
                   reconstruction, cycles, cloak_log>>
    /\ UNCHANGED notCloakVars

\* cleanup(): self.shutdown_event.set(), and the return
CleanupSetsEvent ==
    /\ cleanup_pc = "set_event"
    /\ shutdown_event' = TRUE
    /\ cleanup_pc' = "returned"
    /\ UNCHANGED <<is_cloaking_active, worker_running, shaping, niced, loop_pc,
                   reconstruction, cycles, cloak_log>>
    /\ UNCHANGED notCloakVars

CloakingLoop == LoopTest \/ LoopDetect \/ LoopAct \/ LoopWait

Cleanup ==
    CleanupStopMining \/ CleanupRestoreCpu \/ CleanupRestoreNetwork \/ CleanupSetsEvent

NextCloak == CloakingLoop \/ Cleanup

SpecCloak == Init /\ [][NextCloak]_vars

\* ------------------------------------------------------------------------
\* setup_env.setup() (SpecSetup)
\* ------------------------------------------------------------------------

\* validate_configs that only looks for missing fields.
validate_configs_presence(config) ==
    \A f \in ConfigFields : config[f] # None

\* validate_configs: TRUE when it returns, FALSE when it leaves by
\* sys.exit(1).  Every field has to be there and in its range, and
\* 0 <= gpu_util_min < gpu_util_max <= 100.
validate_configs(config) ==
    /\ \A f \in DOMAIN ValidatedRanges :
          /\ config[f] # None
          /\ ValidatedRanges[f][1] <= config[f] /\ config[f] <= ValidatedRanges[f][2]
    /\ config["gpu_util_min"] # None /\ config["gpu_util_max"] # None
    /\ 0 <= config["gpu_util_min"]
    /\ config["gpu_util_min"] < config["gpu_util_max"]
    /\ config["gpu_util_max"] <= 100

\* setup(): the three load_json_config calls; a file that is missing or is
\* not JSON ends the run by sys.exit(1).
SetupLoads ==
    /\ setup_run.pc = "start"
    /\ \/ \E config \in Configs :
            setup_run' = [setup_run EXCEPT !.pc = "validate", !.config = config]
       \/ setup_run' = [setup_run EXCEPT !.pc = "exited", !.exit_status = 1]
    /\ UNCHANGED notSetupVars

\* setup(): validate_configs(...)
SetupValidates ==
    /\ setup_run.pc = "validate"
    /\ setup_run' = IF validate_configs(setup_run.config)
                    THEN [setup_run EXCEPT !.pc = "environment"]
                    ELSE [setup_run EXCEPT !.pc = "exited", !.exit_status = 1]
    /\ UNCHANGED notSetupVars

\* setup(): setup_environment_variables(...); an exception ends the run by
\* sys.exit(1), with some of the variables written.
SetupEnvironmentVariables ==
    /\ setup_run.pc = "environment"
    /\ \E ok \in BOOLEAN :
         setup_run' = IF ok
                      THEN [setup_run EXCEPT !.pc = "system", !.environment = TRUE]
                      ELSE [setup_run EXCEPT !.pc = "exited", !.environment = TRUE,
                                             !.exit_status = 1]
    /\ UNCHANGED notSetupVars

\* setup(): configure_system(...): timezone and locale; a failing command
\* ends the run by sys.exit(1).
SetupConfiguresSystem ==
    /\ setup_run.pc = "system"
    /\ \E ok \in BOOLEAN :
         setup_run' = IF ok
                      THEN [setup_run EXCEPT !.pc = "security", !.system = TRUE]
                      ELSE [setup_run EXCEPT !.pc = "exited", !.system = TRUE,
                                             !.exit_status = 1]
    /\ UNCHANGED notSetupVars

\* setup(): configure_security(...): stunnel is started unless it runs
\* already; a missing stunnel.conf ends the run by sys.exit(1).
SetupConfiguresSecurity ==
    /\ setup_run.pc = "security"
    /\ \E ok \in BOOLEAN :
         setup_run' = IF ok
                      THEN [setup_run EXCEPT !.pc = "done", !.tunnel = TRUE]
                      ELSE [setup_run EXCEPT !.pc = "exited", !.exit_status = 1]
    /\ UNCHANGED notSetupVars

NextSetup ==
    \/ SetupLoads
    \/ SetupValidates
    \/ SetupEnvironmentVariables
    \/ SetupConfiguresSystem
    \/ SetupConfiguresSecurity

SpecSetup == Init /\ [][NextSetup]_vars

\* ------------------------------------------------------------------------
\* Properties of apply_cloak_strategy and restore_resources (under Spec)
\* ------------------------------------------------------------------------

\* C1: for every pid and key, the value recorded in original_resource_limits
\* (when one could be read) is the system value the key had before the first
\* cloak that wrote it since the last restore; later cloaks do not replace it.
C1_FirstWriteValueKept ==
    \A p \in DOMAIN original_resource_limits :
      \A k \in DOMAIN original_resource_limits[p] :
        original_resource_limits[p][k] # None
            => original_resource_limits[p][k] = firstSeen[p][k]

\* C2: a cloak of a process that had no saved limits, followed at once by
\* restore_resources of that process, with every adapter call succeeding,
\* leaves every saved knob of the cloak at the value it had before the cloak.
C2_RoundTrip ==
    (roundTrip.phase = "restored" /\ roundTrip.clean)
        => \A k \in DOMAIN roundTrip.pre :
              SysValue(Machine, k, roundTrip.pid) = roundTrip.pre[k]

\* C3: after restore_resources(p) has returned without raising,
\* original_resource_limits holds no recorded knob for p.
C3_RestoreEmptiesEntry ==
    (lastOp.op = "restore" /\ ~lastOp.raised)
        => \/ lastOp.pid \notin DOMAIN original_resource_limits
           \/ DOMAIN original_resource_limits[lastOp.pid] = {}

\* A restore of a pid that had recorded knobs has just removed its entry.
C3_Witness ==
    /\ lastOp.op = "restore"
    /\ lastOp.recorded # {}
    /\ lastOp.pid \notin DOMAIN original_resource_limits

\* C4: when an adapter fails while restore_resources(p) reapplies the recorded
\* knobs, the entry of p is still in original_resource_limits afterwards.
C4_EntryKeptOnFailure ==
    (lastOp.op = "restore" /\ lastOp.failed)
        => lastOp.pid \in DOMAIN original_resource_limits

\* ------------------------------------------------------------------------
\* Properties of the adjustment queue and of the threads
\* ------------------------------------------------------------------------

\* The entries waiting in the queue.
Pending == {resource_adjustment_queue[i] : i \in 1..Len(resource_adjustment_queue)}

\* Position of the task with stamp n in the order of execution, 0 if it
\* has not been handed to the executor.
ExecutedAt(n) ==
    IF \E i \in 1..Len(executed) : executed[i] = n
    THEN CHOOSE i \in 1..Len(executed) : executed[i] = n
    ELSE 0

\* C5: priority ordering.  When a task B has been handed to the executor,
\* every task A put before B with a smaller priority number has been
\* handed to the executor before B.
C5_PriorityOrder ==
    \A b \in 1..Len(puts) : \A a \in 1..(b - 1) :
        (ExecutedAt(b) # 0 /\ puts[a].prio < puts[b].prio)
            => (ExecutedAt(a) # 0 /\ ExecutedAt(a) < ExecutedAt(b))

\* C6: FIFO within a priority level.  No task waits in the queue while a
\* task of the same priority that was put after it has been handed to the
\* executor.
C6_FifoWithinPriority ==
    \A e \in Pending : \A b \in 1..Len(puts) :
        (ExecutedAt(b) # 0 /\ puts[b].prio = e.prio) => b < e.seq

\* C7: enqueueing never fails.  Every put made so far has returned without
\* raising.
C7_PutNeverFails == \A n \in 1..Len(puts) : puts[n].ok

\* C8: serialisability.  No thread but the executor is inside an OS
\* adapter, and no adapter call of the executor has run while another
\* adapter call was in progress.
C8_OnlyExecutorInAdapters == monitor_pc # "alloc" /\ ~overlap

\* C9: after stop() has completed, no pid is left with recorded original
\* limits: each has been restored before the handles were released.
C9_RestoredAtStop ==
    stop_pc = "stopped" =>
        \A p \in DOMAIN original_resource_limits : DOMAIN original_resource_limits[p] = {}

C11_ExecutorSurvives ==
    /\ thread["executor"] # "crashed"
    /\ task_log # "none" => thread["executor"] = "running"

\* A task has failed and a later task has been executed.
C11_Witness == task_log = "went_on" /\ thread["executor"] = "running"

\* C12: a knob the engine has written for a pid, through whatever task
\* type, and not restored since has its earlier value recorded in
\* original_resource_limits: a core count, a GPU power cap or an I/O class
\* that is no longer the one the process started with has a snapshot.
C12_WrittenKnobsRecorded ==
    /\ \A p \in Pids :
         affinity[p] # cpu_count =>
            (p \in DOMAIN original_resource_limits
             /\ "cpu_threads" \in DOMAIN original_resource_limits[p])
    /\ \A p \in Pids :
         SysValue(Machine, "ionice_class", p) = 3 =>
            (p \in DOMAIN original_resource_limits
             /\ "ionice_class" \in DOMAIN original_resource_limits[p])

\* ------------------------------------------------------------------------
\* Properties of restore_resources, continued
\* ------------------------------------------------------------------------

\* C13: restore_resources calls the adapter of every recorded knob whose
\* saved value is known, and of no other knob.
C13_RestoreCallsEveryKnownKnob ==
    lastOp.op = "restore" => lastOp.calls = lastOp.known

\* C14: when an adapter fails during restore_resources, the adapters of all
\* the recorded knobs are still called and nothing is raised to the caller.
C14_RestoreGoesOnAfterFailure ==
    (lastOp.op = "restore" /\ lastOp.failed)
        => (lastOp.calls = lastOp.known /\ ~lastOp.raised)

\* C15: an optimization action applied twice in a row to the same process
\* leaves CPU threads, GPU usage, disk I/O limit and bandwidth limit after
\* the second application as they were after the first.
C15_SecondApplicationChangesNothing ==
    opt.applied = 2 => opt.knobs = opt.first

\* An action was applied twice and its first application changed a knob.
C15_Witness ==
    /\ opt.applied = 2
    /\ opt.first # opt.before
    /\ opt.action[4] # opt.before.disk_io_limit_mbps
    /\ "disk_io" \notin opt.fails

\* C16: in one monitor tick, for every process, at most one monitoring task
\* with a given set of cloak flags is put, also when the temperature check
\* and the power check both find the same devices over their ceilings.
C16_OneTaskPerFlagSet ==
    LET put == tick.temperature \o tick.power
    IN \A i, j \in DOMAIN put : put[i] = put[j] => i = j

\* The flags a check of the last tick has to set, from the readings kept.
C17_Exceeding(cpu_sensor, gpu_sensor) ==
    {f \in {"cpu_cloak", "gpu_cloak"} :
        LET s == IF f = "cpu_cloak" THEN cpu_sensor ELSE gpu_sensor
        IN tick.readings[s] > Ceilings[s] /\ s \notin tick.no_data}

C17_CheckPut(put, cpu_sensor, gpu_sensor) ==
    LET flags == C17_Exceeding(cpu_sensor, gpu_sensor)
    IN IF flags = {} THEN put = <<>>
       ELSE /\ Len(put) = 1
            /\ put[1][2] = Task("monitoring", tick.pid, flags)

\* C17: a threshold check puts one monitoring task whose flags are exactly
\* the devices whose reading is over its ceiling and puts nothing when no
\* reading is; a sensor without data, read as zero, sets no flag.
C17_FlagsAreDevicesOverCeiling ==
    tick.pid # 0 =>
        /\ C17_CheckPut(tick.temperature, "cpu_temp", "gpu_temp")
        /\ tick.power_checked => C17_CheckPut(tick.power, "cpu_power", "gpu_power")

\* A check put a task for one device while the sensor of the other had no data.
C17_Witness ==
    /\ tick.pid # 0
    /\ "gpu_temp" \in tick.no_data
    /\ Len(tick.temperature) = 1
    /\ tick.temperature[1][2].arg = {"cpu_cloak"}

\* The priority the kinds of task are to carry.
C18_PriorityOfKind(type) ==
    CASE type = "restore"      -> {1}
      [] type = "monitoring"   -> {2}
      [] type = "optimization" -> {3}
      [] type = "function"     -> {3}
      [] OTHER                 -> {1, 2, 3}

\* C18: every task on the adjustment queue carries the priority of its kind:
\* restore 1, monitoring 2, optimization and function call 3.
C18_PriorityByKind ==
    \A i \in DOMAIN resource_adjustment_queue :
        resource_adjustment_queue[i].prio
            \in C18_PriorityOfKind(resource_adjustment_queue[i].task.type)

\* C20: the adjustments of apply_recommended_action take effect in the
\* order cpu_threads, ram, gpu_usage, disk_io, network, and the cache drop
\* after the five: once the only task handed to the executor, an
\* optimization task, has run and the queue is empty again, the adapter
\* calls made are those six in that order.
C20_AdjustmentsThenCacheDrop ==
    (action_log.applied /\ put_count = 1 /\ resource_adjustment_queue = <<>>)
        => action_log.effects = RecommendedFunctions \o <<"drop_caches">>

\* The knobs of the worker are what they were before any cloak.
C19_OriginalsBack ==
    /\ Worker \notin DOMAIN original_resource_limits
    /\ gpu_limit_mw = 250000
    /\ ionice[Worker] = 0
    /\ affinity[Worker] = cpu_count

\* C19: when the worker has been cloaked because of a reading and the
\* readings stay under the ceilings afterwards, a restore task is put and
\* run and the original limits are back.
C19_RestoredOnceCalm ==
    (calm /\ Worker \in DOMAIN original_resource_limits) ~> C19_OriginalsBack

\* The number of entries of a heap that hold the task.
C21_Count(h, task) == Cardinality({i \in DOMAIN h : h[i].task = task})

\* C21: when a step of apply_recommended_action fails, the steps after it
\* are not performed (no later put, no cache strategy), the error is logged,
\* no exception reaches the caller, and what was enqueued stays enqueued.
C21_FailureEndsSequence ==
    (last_action.ran /\ last_action.raised) =>
        LET tasks == [i \in 1..Len(RecommendedFunctions) |->
                         Task("function", last_action.pid, RecommendedFunctions[i])]
            begun == {tasks[i] : i \in 1..last_action.made}
            held  == {last_action.before[i].task : i \in DOMAIN last_action.before}
        IN /\ last_action.logged /\ ~last_action.propagated
           /\ last_action.made < Len(RecommendedFunctions) => ~last_action.cache
           /\ Len(last_action.after) = Len(last_action.before) + last_action.made
           /\ \A t \in held \cup begun :
                C21_Count(last_action.after, t)
                    = C21_Count(last_action.before, t) + (IF t \in begun THEN 1 ELSE 0)

\* A put of apply_recommended_action raised after an earlier put was made,
\* with a task already waiting in the queue.
C21_Witness ==
    /\ last_action.ran /\ last_action.raised
    /\ last_action.made >= 2
    /\ last_action.before # <<>>

\* What a call of adjust_cpu_threads has to leave behind.
C22_CallDone(call, pinned, limits) ==
    /\ limits = call.limits
    /\ (call.cpu_threads <= 0 \/ call.cpu_threads > cpu_count)
          => (pinned = call.affinity /\ call.warned)
    /\ (1 <= call.cpu_threads /\ call.cpu_threads <= cpu_count /\ call.ok)
          => (pinned = call.cpu_threads /\ ~call.warned)

\* C22: adjust_cpu_threads with n <= 0 or n above the number of logical
\* cores changes no affinity, logs a warning and leaves
\* original_resource_limits as it is; with 1 <= n <= cores (and taskset
\* succeeding) the process is pinned to the cores 0..n-1.
C22_InvalidCountSkipped ==
    cpu_call.pid # 0 =>
        C22_CallDone(cpu_call, affinity[cpu_call.pid], original_resource_limits)

\* A count above the number of cores was asked for a process that was pinned
\* to one core, with limits on record.
C22_Witness ==
    /\ cpu_call.pid # 0
    /\ cpu_call.cpu_threads > cpu_count
    /\ cpu_call.affinity = 1
    /\ affinity[cpu_call.pid] = 1
    /\ cpu_call.limits # EmptyDict

\* C23: for a process whose name holds no GPU keyword, the GPU knob of a
\* request is dropped without a call of the GPU adapter, and the other
\* knobs of the request are applied.
C23_GpuKnobDroppedForCpuProcess ==
    (opt.applied = 1 /\ ~is_gpu_process(ProcessName(opt.pid))) =>
        /\ opt.first.gpu_usage = opt.before.gpu_usage
        /\ (opt.action[1] \in 1..cpu_count /\ "cpu_threads" \notin opt.fails)
              => opt.first.affinity[opt.pid] = opt.action[1]

\* C24: once adjust_gpu_power_limit has failed for good, no later task calls
\* it again and its failure is logged that one time only.
C24_GpuAdapterDisabledAfterFailure ==
    ~gpu_adapter.again

\* C25: when a metric sample finds that the pid of a managed process no
\* longer exists, the process is no longer in the list of managed processes
\* and original_resource_limits has no entry for the pid.
C25_GoneProcessDropped ==
    sample.gone =>
        /\ sample.pid \notin mining_processes
        /\ sample.pid \notin DOMAIN original_resource_limits

C27_FlagTracksHeldAdjustments ==
    \A p \in Pids :
        is_cloaked[p] <=> (/\ p \in DOMAIN original_resource_limits
                           /\ DOMAIN original_resource_limits[p] # {})

\* C28: every call of ResourceManager(...), one after another or from
\* several threads at once, gives the one instance, and the stop event, the
\* queues, the process list and the threads the first initialisation made
\* are never replaced.
C28_InitialisedOnce ==
    /\ instances <= 1
    /\ ~rm_replaced

\* main has finished with SystemManager.stop run, the resource thread ended
\* and no thread reported as not stopped.
C29_StoppedCleanly ==
    /\ stop_runs >= 1
    /\ res_pc = "done"
    /\ main_pc = "done"
    /\ ~reported

C31_SampleIsTrafficSincePrevious ==
    /\ net_hist.kind = "first" => network_io = 0
    /\ net_hist.kind = "later" => network_io * MiB = net_hist.at - net_hist.before

RECURSIVE C32_Power(_, _)
C32_Power(b, e) == IF e = 0 THEN 1 ELSE b * C32_Power(b, e - 1)

\* What an invocation with at most n calls has to look like.
C32_Retried(n) ==
    /\ retry_call.calls <= n
    /\ \A k \in DOMAIN retry_call.waits :
          retry_call.waits[k] = retry_call.delay * C32_Power(retry_call.backoff, k - 1)
    /\ retry_call.pc = "calling" => retry_call.calls = Len(retry_call.waits)
    /\ retry_call.pc = "returned" =>
          /\ retry_call.calls = Len(retry_call.waits) + 1
          /\ retry_call.result = ReturnOf(retry_call.calls)
    /\ (retry_call.pc = "raised" /\ retry_call.raised = "other") =>
          retry_call.calls = Len(retry_call.waits) + 1
    /\ (retry_call.pc = "raised" /\ retry_call.raised = "checked") =>
          (retry_call.calls = n /\ Len(retry_call.waits) = n - 1)

C33_AttemptsAndWaits ==
    /\ start_call.attempts <= start_call.retries
    /\ start_call.mining_started_event =>
          (start_call.pc = "done" /\ start_call.returned = "process")
    /\ start_call.stop_event => (start_call.pc = "done" /\ start_call.returned = "None")
    /\ start_call.pc = "attempt" => start_call.waits = start_call.attempts
    /\ start_call.pc = "done" =>
          /\ start_call.waits = Max2(start_call.attempts - 1, 0)
          /\ start_call.returned = "process" =>
                /\ start_call.last = "alive"
                /\ start_call.mining_started_event /\ ~start_call.stop_event
          /\ start_call.returned = "None" =>
                /\ start_call.attempts = start_call.retries
                /\ start_call.last # "alive"
                /\ start_call.stop_event /\ ~start_call.mining_started_event

\* All three attempts of retries = 3 failed: two waits, stop_event set.
C33_Witness ==
    /\ start_call.pc = "done"
    /\ start_call.retries = 3
    /\ start_call.attempts = 3
    /\ start_call.waits = 2
    /\ start_call.returned = "None"
    /\ start_call.stop_event

\* C34: original_resource_limits has no entry with an empty snapshot: a pid
\* is a key only when a knob value is recorded for it, also after a strategy
\* whose adjustments hold none of the saved knobs.
C34_NoEmptySnapshot ==
    \A p \in DOMAIN original_resource_limits :
        DOMAIN original_resource_limits[p] # {}

\* C35: in cloaking_loop the activation actions run only on a change from
\* inactive to active and the deactivation actions only on a change from
\* active to inactive: activations and deactivations alternate, an
\* activation first.
C35_ActivationsAlternate ==
    \A i \in DOMAIN cloak_log :
        cloak_log[i] = IF i % 2 = 1 THEN "activate" ELSE "deactivate"

\* The loop has activated, deactivated and activated again; between two of
\* these the error stayed on its side of the threshold for a cycle.
C35_Witness ==
    /\ Len(cloak_log) = 3
    /\ cycles > 3

\* C36: once cleanup() has returned, the worker process is not running and
\* no network shaping is in place, whatever the cloaking loop does
\* meanwhile or afterwards.
C36_NothingLeftAfterCleanup ==
    cleanup_pc = "returned" => (~worker_running /\ ~shaping)

\* A field of the configuration is missing or out of its range.
C37_BadField(config) ==
    \/ \E f \in ConfigFields : config[f] = None
    \/ \E f \in DOMAIN ValidatedRanges :
          config[f] < ValidatedRanges[f][1] \/ config[f] > ValidatedRanges[f][2]
    \/ config["gpu_util_min"] < 0
    \/ config["gpu_util_max"] > 100
    \/ config["gpu_util_min"] >= config["gpu_util_max"]

\* C37: in setup() the validation comes before every step that changes the
\* host: with a validated field missing or out of range the run ends with
\* exit status 1 and the environment variables, the timezone and locale
\* and the tunnel have not been touched.
C37_ValidationBeforeChanges ==
    (setup_run.pc # "validate" /\ C37_BadField(setup_run.config)) =>
        /\ setup_run.pc = "exited"
        /\ setup_run.exit_status = 1
        /\ ~setup_run.environment /\ ~setup_run.system /\ ~setup_run.tunnel

\* A run ended on max_threads = 65, every other field being good.
C37_Witness ==
    /\ setup_run.pc = "exited"
    /\ setup_run.exit_status = 1
    /\ setup_run.config = [GoodConfig EXCEPT !["cpu_max_threads"] = 65]

====
